---- MODULE Spec2Model ----
(***************************************************************************)
(* AuroHear hearing-asymmetry screening: the staircase session state       *)
(* machine kept in User.test_state (start_test / submit_response of        *)
(* app.py) and the threshold estimator compute_threshold.                  *)
(*                                                                         *)
(* Numbers: levels are integers, thresholds are the floats float(level);   *)
(* every level the staircase produces is a multiple of 5 in -10..40, which *)
(* a float holds exactly, so a threshold is modelled by the integer of the *)
(* same value (40 stands for 40.0, -10 for -10.0).                         *)
(***************************************************************************)
EXTENDS Integers, Sequences, FiniteSets, TLC

VARIABLES
    test_state,   \* User.test_state, the JSON document decoded; <<>> is {}
    request,      \* the last request served: [op, heard]
    response,     \* the HTTP response to the last request
    habit,        \* environment: the listener's usual answer (TRUE = hears)
    lapses,       \* environment: answers given so far that differ from habit
    trials,       \* estimator harness: the trial list handed to the estimator
    estimate,     \* estimator harness: <<>> or <<compute_threshold(trials)>>
    auth_type,    \* User.auth_type: "guest" or "authenticated"
    user_result,  \* User.left_avg, right_avg, dissimilarity: <<>> is NULL
    screening_sessions,  \* the rows of the screening_sessions table
    inflight,     \* concurrent submit_response requests between load and commit
    input,        \* analytics harness: the argument of the function applied
    output        \* analytics harness: <<>> or <<the value returned>>

vars == <<test_state, request, response, habit, lapses, trials, estimate,
          auth_type, user_result, screening_sessions, inflight, input, output>>

\* the user's stored results and history
store == <<auth_type, user_result, screening_sessions>>

\* what the single-request session handlers never touch
aside == <<trials, estimate, inflight, input, output>>

----------------------------------------------------------------------------
(* Bounds of the exploration *)

\* answers that differ from the listener's habit, over a behaviour
MaxLapses == 3
\* submit_response is explored while current_test_index is below this cap
MaxIndex == 14
\* longest trial list handed to the estimator harness
MaxLen == 6

\* levels of the trial lists of the estimator harness
HarnessLevels == {-10, 20, 40}

----------------------------------------------------------------------------
(* Helpers for Python values *)

EmptyDict == << >>

Has(d, k) == k \in DOMAIN d

Min(S) == CHOOSE x \in S : \A y \in S : x <= y

Max(S) == CHOOSE x \in S : \A y \in S : x >= y

\* truthiness of the JSON value of 'heard' ("null" is None)
Truthy(v) == v = "true"

HeardValues == {"true", "false", "null"}

\* A key of an in-memory dict: its Python type and its str() rendering.
StrKey(s) == [type |-> "str", repr |-> s]

IntKey(s) == [type |-> "int", repr |-> s]

\* json.loads of a JSON object: every key is a str.
LoadDict(d) == [k \in {StrKey(s) : s \in DOMAIN d} |-> d[k.repr]]

\* d[key] = v on an in-memory dict
DictSet(m, key, v) == [k \in (DOMAIN m) \cup {key} |-> IF k = key THEN v ELSE m[k]]

\* json.loads(json.dumps(m)): an int key is written as its str(); when the
\* dict holds both the str key (loaded, hence inserted first) and the int key
\* (inserted by this request, hence last), the object repeats the key and
\* json.loads keeps the last value.
JsonRoundTrip(m) ==
    [s \in {k.repr : k \in DOMAIN m} |->
        IF IntKey(s) \in DOMAIN m THEN m[IntKey(s)] ELSE m[StrKey(s)]]

\* the columns left_avg, right_avg, dissimilarity of a new user (NULL)
NoResult == [left_avg |-> << >>, right_avg |-> << >>, dissimilarity |-> << >>]

\* the worker threads that can serve requests of the same user at once
Workers == {1, 2}

NoRequests == [w \in Workers |-> << >>]

----------------------------------------------------------------------------
(* Floats that are quotients: exact fractions num/den in lowest terms *)

Abs(x) == IF x < 0 THEN -x ELSE x

RECURSIVE GCD(_, _)
GCD(a, b) == IF b = 0 THEN a ELSE GCD(b, a % b)

Frac(n, d) ==
    LET g == GCD(Abs(n), Abs(d))
        sgn == IF d < 0 THEN -1 ELSE 1
    IN  [num |-> sgn * (n \div g), den |-> sgn * (d \div g)]

FromInt(n) == [num |-> n, den |-> 1]

FAdd(a, b) == Frac(a.num * b.den + b.num * a.den, a.den * b.den)

FSub(a, b) == Frac(a.num * b.den - b.num * a.den, a.den * b.den)

FMul(a, b) == Frac(a.num * b.num, a.den * b.den)

FDiv(a, b) == Frac(a.num * b.den, a.den * b.num)

FAbs(a) == [num |-> Abs(a.num), den |-> a.den]

FLe(a, b) == a.num * b.den <= b.num * a.den

FLt(a, b) == a.num * b.den < b.num * a.den

\* sum(values) of a list of numbers
RECURSIVE SumSeq(_)
SumSeq(values) == IF Len(values) = 0 THEN 0 ELSE values[1] + SumSeq(Tail(values))

\* sum(values) of a list of quotients
RECURSIVE FSum(_)
FSum(values) == IF Len(values) = 0 THEN FromInt(0) ELSE FAdd(values[1], FSum(Tail(values)))

----------------------------------------------------------------------------
(* start_test *)

test_frequencies == <<5000, 4000, 2000, 1000, 500, 250>>

\* variant: left ear first
ears_LeftFirst == <<"left", "right">>

ears == <<"right", "left">>

\* [{'freq': freq, 'ear': ear} for freq in test_frequencies for ear in ['right', 'left']]
test_sequence ==
    [i \in 1..(Len(test_frequencies) * Len(ears)) |->
        [freq |-> test_frequencies[((i - 1) \div Len(ears)) + 1],
         ear  |-> ears[((i - 1) % Len(ears)) + 1]]]

\* variant: the run gives up after 10 trials
NewTest_ShortRun(pair) ==
    [frequency     |-> pair.freq,
     ear           |-> pair.ear,
     current_level |-> 40,
     responses     |-> << >>,
     trial_count   |-> 0,
     max_trials    |-> 10]

\* the current_test dict of a run that has not been answered yet
NewTest(pair) ==
    [frequency     |-> pair.freq,
     ear           |-> pair.ear,
     current_level |-> 40,
     responses     |-> << >>,
     trial_count   |-> 0,
     max_trials    |-> 12]

\* variant: the thresholds start filled with the 40.0 default
StartState_Prefilled ==
    [thresholds         |-> [left  |-> [s \in {"5000", "4000", "2000", "1000", "500", "250"} |-> 40],
                             right |-> [s \in {"5000", "4000", "2000", "1000", "500", "250"} |-> 40]],
     test_sequence      |-> test_sequence,
     current_test_index |-> 0,
     total_tests        |-> Len(test_sequence),
     current_test       |-> NewTest(test_sequence[1])]

\* variant: the session is taken to be over one run early
StartState_ElevenTests ==
    [thresholds         |-> [left |-> EmptyDict, right |-> EmptyDict],
     test_sequence      |-> test_sequence,
     current_test_index |-> 0,
     total_tests        |-> Len(test_sequence) - 1,
     current_test       |-> NewTest(test_sequence[1])]

\* the test_state dict start_test builds (Python index 0 is index 1 here)
StartState ==
    [thresholds         |-> [left |-> EmptyDict, right |-> EmptyDict],
     test_sequence      |-> test_sequence,
     current_test_index |-> 0,
     total_tests        |-> Len(test_sequence),
     current_test       |-> NewTest(test_sequence[1])]

start_test ==
    /\ request' = [op |-> "start_test", heard |-> "null"]
    /\ test_state' = StartState
    /\ response' = [status       |-> 200,
                    freq         |-> StartState.current_test.frequency,
                    ear          |-> StartState.current_test.ear,
                    level        |-> StartState.current_test.current_level,
                    progress     |-> 0,
                    test_number  |-> 1,
                    total_tests  |-> StartState.total_tests]
    /\ UNCHANGED <<habit, lapses, store, aside>>

----------------------------------------------------------------------------
(* compute_threshold *)

\* r.get('level') is None when the trial has no level
HasLevel(r) == Has(r, "level")

\* the level_map dict after the loop over responses[1..n]
RECURSIVE LevelMap(_, _)
LevelMap(responses, n) ==
    IF n = 0 THEN EmptyDict
    ELSE LET r    == responses[n]
             prev == LevelMap(responses, n - 1)
         IN  IF ~HasLevel(r) THEN prev
             ELSE LET level == r.level
                      old   == IF level \in DOMAIN prev THEN prev[level]
                               ELSE [yes |-> 0, total |-> 0]
                      new   == [yes   |-> old.yes + (IF Truthy(r.heard) THEN 1 ELSE 0),
                                total |-> old.total + 1]
                  IN  [l \in (DOMAIN prev) \cup {level} |->
                          IF l = level THEN new ELSE prev[l]]

\* variant: a level qualifies only above one half
compute_threshold_Strict(responses) ==
    IF Len(responses) = 0 THEN 40
    ELSE LET level_map        == LevelMap(responses, Len(responses))
             levels           == DOMAIN level_map
             candidate_levels == {l \in levels : 2 * level_map[l].yes > level_map[l].total}
             heard_levels     == {l \in levels : level_map[l].yes > 0}
         IN  IF candidate_levels # {} THEN Min(candidate_levels)
             ELSE IF heard_levels # {} THEN Min(heard_levels)
             ELSE 40

\* variant: the highest qualifying level
compute_threshold_Highest(responses) ==
    IF Len(responses) = 0 THEN 40
    ELSE LET level_map        == LevelMap(responses, Len(responses))
             levels           == DOMAIN level_map
             candidate_levels == {l \in levels : 2 * level_map[l].yes >= level_map[l].total}
             heard_levels     == {l \in levels : level_map[l].yes > 0}
         IN  IF candidate_levels # {} THEN Max(candidate_levels)
             ELSE IF heard_levels # {} THEN Max(heard_levels)
             ELSE 40

\* variant: the lowest level with a heard answer, whatever its hit rate
compute_threshold_LowestHeard(responses) ==
    IF Len(responses) = 0 THEN 40
    ELSE LET level_map    == LevelMap(responses, Len(responses))
             levels       == DOMAIN level_map
             heard_levels == {l \in levels : level_map[l].yes > 0}
         IN  IF heard_levels # {} THEN Min(heard_levels)
             ELSE 40

\* yes / total >= 0.5, on integers
compute_threshold(responses) ==
    IF Len(responses) = 0 THEN 40
    ELSE LET level_map        == LevelMap(responses, Len(responses))
             levels           == DOMAIN level_map
             candidate_levels == {l \in levels : 2 * level_map[l].yes >= level_map[l].total}
             heard_levels     == {l \in levels : level_map[l].yes > 0}
         IN  IF candidate_levels # {} THEN Min(candidate_levels)
             ELSE IF heard_levels # {} THEN Min(heard_levels)
             ELSE 40

----------------------------------------------------------------------------
(* submit_response *)

\* variant: no floor
NextLevel_NoFloor(old_level, heard) ==
    IF Truthy(heard) THEN old_level - 10
    ELSE Min({40, old_level + 5})

\* current_test['current_level'] after the answer
NextLevel(old_level, heard) ==
    IF Truthy(heard) THEN Max({-10, old_level - 10})
    ELSE Min({40, old_level + 5})

\* variant: a level that cannot change ends the run, at the ceiling too
should_compute_threshold_Stuck(heard, current_level, old_level, trial_count, max_trials) ==
    \/ current_level = old_level
    \/ trial_count >= max_trials

\* variant: the run ends as soon as a heard answer brings the level to the floor
should_compute_threshold_AtFloor(heard, current_level, old_level, trial_count, max_trials) ==
    \/ Truthy(heard) /\ current_level = -10
    \/ trial_count >= max_trials

should_compute_threshold(heard, current_level, old_level, trial_count, max_trials) ==
    \/ Truthy(heard) /\ current_level = old_level
    \/ trial_count >= max_trials

\* variant: the trial is appended after the level has moved
SubmitUpdate_PostLevel(state, heard) ==
    LET ct0        == state.current_test
        old_level  == ct0.current_level
        new_level  == NextLevel(old_level, heard)
        responses  == Append(ct0.responses, [level |-> new_level, heard |-> heard])
        trial_cnt  == ct0.trial_count + 1
        ct1        == [ct0 EXCEPT !.responses = responses,
                                  !.trial_count = trial_cnt,
                                  !.current_level = new_level]
        mem        == [left  |-> LoadDict(state.thresholds.left),
                       right |-> LoadDict(state.thresholds.right)]
    IN  IF should_compute_threshold(heard, new_level, old_level, trial_cnt, ct1.max_trials)
        THEN LET threshold == compute_threshold(responses)
                 freq      == IntKey(ToString(ct1.frequency))
                 thr       == [mem EXCEPT ![ct1.ear] = DictSet(mem[ct1.ear], freq, threshold)]
                 index     == state.current_test_index + 1
             IN  [state EXCEPT !.thresholds = thr,
                               !.current_test_index = index,
                               !.current_test =
                                   IF index < state.total_tests
                                   THEN NewTest(state.test_sequence[index + 1])
                                   ELSE ct1]
        ELSE [state EXCEPT !.thresholds = mem, !.current_test = ct1]

\* variant: the next run is taken from the sequence one position too early
SubmitUpdate_SamePair(state, heard) ==
    LET ct0        == state.current_test
        old_level  == ct0.current_level
        responses  == Append(ct0.responses, [level |-> old_level, heard |-> heard])
        trial_cnt  == ct0.trial_count + 1
        new_level  == NextLevel(old_level, heard)
        ct1        == [ct0 EXCEPT !.responses = responses,
                                  !.trial_count = trial_cnt,
                                  !.current_level = new_level]
        mem        == [left  |-> LoadDict(state.thresholds.left),
                       right |-> LoadDict(state.thresholds.right)]
    IN  IF should_compute_threshold(heard, new_level, old_level, trial_cnt, ct1.max_trials)
        THEN LET threshold == compute_threshold(responses)
                 freq      == IntKey(ToString(ct1.frequency))
                 thr       == [mem EXCEPT ![ct1.ear] = DictSet(mem[ct1.ear], freq, threshold)]
                 index     == state.current_test_index + 1
             IN  [state EXCEPT !.thresholds = thr,
                               !.current_test_index = index,
                               !.current_test =
                                   IF index < state.total_tests
                                   THEN NewTest(state.test_sequence[index])
                                   ELSE ct1]
        ELSE [state EXCEPT !.thresholds = mem, !.current_test = ct1]

\* the test_state dict in memory at the end of the try block, before json.dumps
SubmitUpdate(state, heard) ==
    LET ct0        == state.current_test
        old_level  == ct0.current_level
        responses  == Append(ct0.responses, [level |-> old_level, heard |-> heard])
        trial_cnt  == ct0.trial_count + 1
        new_level  == NextLevel(old_level, heard)
        ct1        == [ct0 EXCEPT !.responses = responses,
                                  !.trial_count = trial_cnt,
                                  !.current_level = new_level]
        mem        == [left  |-> LoadDict(state.thresholds.left),
                       right |-> LoadDict(state.thresholds.right)]
    IN  IF should_compute_threshold(heard, new_level, old_level, trial_cnt, ct1.max_trials)
        THEN LET threshold == compute_threshold(responses)
                 freq      == IntKey(ToString(ct1.frequency))
                 thr       == [mem EXCEPT ![ct1.ear] = DictSet(mem[ct1.ear], freq, threshold)]
                 index     == state.current_test_index + 1
             IN  [state EXCEPT !.thresholds = thr,
                               !.current_test_index = index,
                               !.current_test =
                                   IF index < state.total_tests
                                   THEN NewTest(state.test_sequence[index + 1])
                                   ELSE ct1]
        ELSE [state EXCEPT !.thresholds = mem, !.current_test = ct1]

\* user.test_state = json.dumps(test_state), as the next request decodes it
Persist(state) ==
    [state EXCEPT !.thresholds = [left  |-> JsonRoundTrip(state.thresholds.left),
                                  right |-> JsonRoundTrip(state.thresholds.right)]]

submit_response(heard) ==
    /\ request' = [op |-> "submit_response", heard |-> heard]
    /\ IF heard = "null"
       THEN /\ response' = [status |-> 400, error |-> "User ID and response required"]
            /\ UNCHANGED test_state
       ELSE IF ~Has(test_state, "current_test")
       THEN /\ response' = [status |-> 500, error |-> "Invalid test state: no current test"]
            /\ UNCHANGED test_state
       ELSE /\ test_state' = Persist(SubmitUpdate(test_state, heard))
            /\ response' = [status |-> 200, success |-> TRUE]
    /\ UNCHANGED <<habit, store, trials, estimate, inflight, input>>

----------------------------------------------------------------------------
(* The listener: answers by habit, with at most MaxLapses other answers *)

\* an answer to a presented stimulus that differs from the habit
IsLapse(heard) ==
    /\ heard # "null"
    /\ Has(test_state, "current_test")
    /\ Truthy(heard) # habit

Listener(heard) ==
    /\ Has(test_state, "current_test_index") => test_state.current_test_index < MaxIndex
    /\ IsLapse(heard) => lapses < MaxLapses
    /\ lapses' = IF IsLapse(heard) THEN lapses + 1 ELSE lapses

Answer ==
    /\ \E heard \in HeardValues : Listener(heard) /\ submit_response(heard)
    /\ UNCHANGED output

Init ==
    /\ test_state = EmptyDict
    /\ request = [op |-> "register", heard |-> "null"]
    /\ response = [status |-> 200, is_new |-> TRUE]
    /\ habit \in BOOLEAN
    /\ lapses = 0
    /\ trials = << >>
    /\ estimate = << >>
    /\ auth_type = "authenticated"
    /\ user_result = NoResult
    /\ screening_sessions = {}
    /\ inflight = NoRequests
    /\ input = << >>
    /\ output = << >>

Next == start_test \/ Answer

Spec == Init /\ [][Next]_vars

----------------------------------------------------------------------------
(* Estimator harness: compute_threshold applied to arbitrary trial lists, *)
(* trials without a level (r.get('level') is None) included               *)

HarnessTrials ==
    [level : HarnessLevels, heard : {"true", "false"}] \cup {[heard |-> "true"]}

RECURSIVE SeqsUpTo(_, _)
SeqsUpTo(S, n) ==
    IF n = 0 THEN {<< >>}
    ELSE LET shorter == SeqsUpTo(S, n - 1)
         IN  shorter \cup {Append(q, x) : q \in {t \in shorter : Len(t) = n - 1}, x \in S}

InitEst ==
    /\ test_state = EmptyDict
    /\ request = [op |-> "register", heard |-> "null"]
    /\ response = [status |-> 200, is_new |-> TRUE]
    /\ habit = TRUE
    /\ lapses = 0
    /\ trials \in SeqsUpTo(HarnessTrials, MaxLen)
    /\ estimate = << >>
    /\ auth_type = "authenticated"
    /\ user_result = NoResult
    /\ screening_sessions = {}
    /\ inflight = NoRequests
    /\ input = << >>
    /\ output = << >>

Estimate ==
    /\ estimate = << >>
    /\ estimate' = <<compute_threshold(trials)>>
    /\ UNCHANGED <<test_state, request, response, habit, lapses, trials,
                   store, inflight, input, output>>

NextEst == Estimate

SpecEst == InitEst /\ [][NextEst]_vars

----------------------------------------------------------------------------
(* next_test and save_screening_session *)

\* test_state['thresholds'][ear] after the substitution loop: the dict was
\* decoded from JSON, so its keys are str, and str(freq) is looked up
SubstituteDefaults(ear_thresholds) ==
    LET keys == {ToString(test_frequencies[i]) : i \in 1..Len(test_frequencies)}
    IN  [s \in (DOMAIN ear_thresholds) \cup keys |->
            IF s \in DOMAIN ear_thresholds THEN ear_thresholds[s] ELSE 40]

\* [thresholds[ear][str(f)] for f in test_frequencies]
ValuesOf(ear_thresholds) ==
    [i \in 1..Len(test_frequencies) |-> ear_thresholds[ToString(test_frequencies[i])]]

\* variant: the largest value minus the smallest value of both ears
MaxDiff_Global(left_values, right_values) ==
    LET all == {left_values[i] : i \in 1..Len(left_values)}
               \cup {right_values[i] : i \in 1..Len(right_values)}
    IN  Max(all) - Min(all)

\* max(abs(l - r) for l, r in zip(left_values, right_values))
MaxDiff(left_values, right_values) ==
    Max({Abs(left_values[i] - right_values[i]) :
            i \in 1..Min({Len(left_values), Len(right_values)})})

\* the values next_test computes on completion
Summarize(thresholds) ==
    LET filled       == [left  |-> SubstituteDefaults(thresholds.left),
                         right |-> SubstituteDefaults(thresholds.right)]
        left_values  == ValuesOf(filled.left)
        right_values == ValuesOf(filled.right)
    IN  [thresholds |-> filled,
         is_valid   |-> ~(\A i \in 1..Len(left_values) : left_values[i] = 40)
                        \/ ~(\A i \in 1..Len(right_values) : right_values[i] = 40),
         left_avg   |-> Frac(SumSeq(left_values), Len(left_values)),
         right_avg  |-> Frac(SumSeq(right_values), Len(right_values)),
         max_diff   |-> MaxDiff(left_values, right_values)]

\* the session ids of a set of rows
SessionIds(rows) == {r.session_id : r \in rows}

\* the latest timestamp of a set of rows (0 when there is none)
LastTimestamp(rows) == Max({0} \cup {r.timestamp : r \in rows})

\* int(freq_str) of a key of the thresholds
IntOf(freq_str) ==
    CHOOSE f \in {test_frequencies[i] : i \in 1..Len(test_frequencies)} : ToString(f) = freq_str

\* the rows save_screening_session adds, one per key of each ear; session_id
\* is the new uuid4, now the value of datetime.now()
SessionRows(session_id, now, thresholds) ==
    UNION {{[session_id   |-> session_id,
             user_id      |-> 1,
             timestamp    |-> now,
             ear          |-> ear,
             frequency_hz |-> IntOf(freq_str),
             threshold_db |-> thresholds[ear][freq_str]] :
                freq_str \in DOMAIN thresholds[ear]} : ear \in {"left", "right"}}

\* [session_id, rows]: the value returned (<<>> is None) and the rows added
save_screening_session(now, thresholds) ==
    IF auth_type # "authenticated"
    THEN [session_id |-> << >>, rows |-> {}]
    ELSE LET session_id == Cardinality(SessionIds(screening_sessions)) + 1
             rows       == SessionRows(session_id, now, thresholds)
         IN  IF rows = {} THEN [session_id |-> << >>, rows |-> {}]
             ELSE [session_id |-> <<session_id>>, rows |-> rows]

\* variant: a state without thresholds is read as one with none recorded
next_test_Defaults(now) ==
    /\ request' = [op |-> "next_test", heard |-> "null"]
    /\ LET current_test_index == IF Has(test_state, "current_test_index")
                                 THEN test_state.current_test_index ELSE 0
           total_tests        == IF Has(test_state, "total_tests")
                                 THEN test_state.total_tests ELSE 0
       IN  IF current_test_index >= total_tests
           THEN      LET summary == Summarize(IF Has(test_state, "thresholds")
                                              THEN test_state.thresholds
                                              ELSE [left |-> << >>, right |-> << >>])
                         saved   == save_screening_session(now, summary.thresholds)
                     IN  /\ user_result' = [left_avg      |-> <<summary.left_avg>>,
                                            right_avg     |-> <<summary.right_avg>>,
                                            dissimilarity |-> <<summary.max_diff>>]
                         /\ screening_sessions' = screening_sessions \cup saved.rows
                         /\ response' = [status     |-> 200,
                                         completed  |-> TRUE,
                                         is_valid   |-> summary.is_valid,
                                         thresholds |-> summary.thresholds,
                                         left_avg   |-> summary.left_avg,
                                         right_avg  |-> summary.right_avg,
                                         max_diff   |-> summary.max_diff,
                                         session_id |-> saved.session_id]
           ELSE /\ response' = [status      |-> 200,
                                completed   |-> FALSE,
                                freq        |-> test_state.current_test.frequency,
                                ear         |-> test_state.current_test.ear,
                                level       |-> test_state.current_test.current_level,
                                progress    |-> Frac(current_test_index * 100, total_tests),
                                test_number |-> current_test_index + 1,
                                total_tests |-> total_tests]
                /\ UNCHANGED <<user_result, screening_sessions>>
    /\ UNCHANGED <<test_state, auth_type, habit, lapses, aside>>

\* variant: a poll during a run starts the run afresh
next_test_FreshRun(now) ==
    /\ request' = [op |-> "next_test", heard |-> "null"]
    /\ LET current_test_index == IF Has(test_state, "current_test_index")
                                 THEN test_state.current_test_index ELSE 0
           total_tests        == IF Has(test_state, "total_tests")
                                 THEN test_state.total_tests ELSE 0
       IN  IF current_test_index >= total_tests
           THEN IF ~Has(test_state, "thresholds")
                THEN \* KeyError: 'thresholds'
                     /\ response' = [status |-> 500, error |-> "'thresholds'"]
                     /\ UNCHANGED <<user_result, screening_sessions>>
                ELSE LET summary == Summarize(test_state.thresholds)
                         saved   == save_screening_session(now, summary.thresholds)
                     IN  /\ user_result' = [left_avg      |-> <<summary.left_avg>>,
                                            right_avg     |-> <<summary.right_avg>>,
                                            dissimilarity |-> <<summary.max_diff>>]
                         /\ screening_sessions' = screening_sessions \cup saved.rows
                         /\ response' = [status     |-> 200,
                                         completed  |-> TRUE,
                                         is_valid   |-> summary.is_valid,
                                         thresholds |-> summary.thresholds,
                                         left_avg   |-> summary.left_avg,
                                         right_avg  |-> summary.right_avg,
                                         max_diff   |-> summary.max_diff,
                                         session_id |-> saved.session_id]
           ELSE /\ response' = [status      |-> 200,
                                completed   |-> FALSE,
                                freq        |-> test_state.current_test.frequency,
                                ear         |-> test_state.current_test.ear,
                                level       |-> test_state.current_test.current_level,
                                progress    |-> Frac(current_test_index * 100, total_tests),
                                test_number |-> current_test_index + 1,
                                total_tests |-> total_tests]
                /\ UNCHANGED <<user_result, screening_sessions>>
    /\ test_state' = IF Has(test_state, "current_test_index")
                        /\ test_state.current_test_index < test_state.total_tests
                     THEN [test_state EXCEPT !.current_test =
                              NewTest(test_state.test_sequence[test_state.current_test_index + 1])]
                     ELSE test_state
    /\ UNCHANGED <<auth_type, habit, lapses, aside>>

\* GET /next_test at time now
next_test(now) ==
    /\ request' = [op |-> "next_test", heard |-> "null"]
    /\ LET current_test_index == IF Has(test_state, "current_test_index")
                                 THEN test_state.current_test_index ELSE 0
           total_tests        == IF Has(test_state, "total_tests")
                                 THEN test_state.total_tests ELSE 0
       IN  IF current_test_index >= total_tests
           THEN IF ~Has(test_state, "thresholds")
                THEN \* KeyError: 'thresholds'
                     /\ response' = [status |-> 500, error |-> "'thresholds'"]
                     /\ UNCHANGED <<user_result, screening_sessions>>
                ELSE LET summary == Summarize(test_state.thresholds)
                         saved   == save_screening_session(now, summary.thresholds)
                     IN  /\ user_result' = [left_avg      |-> <<summary.left_avg>>,
                                            right_avg     |-> <<summary.right_avg>>,
                                            dissimilarity |-> <<summary.max_diff>>]
                         /\ screening_sessions' = screening_sessions \cup saved.rows
                         /\ response' = [status     |-> 200,
                                         completed  |-> TRUE,
                                         is_valid   |-> summary.is_valid,
                                         thresholds |-> summary.thresholds,
                                         left_avg   |-> summary.left_avg,
                                         right_avg  |-> summary.right_avg,
                                         max_diff   |-> summary.max_diff,
                                         session_id |-> saved.session_id]
           ELSE /\ response' = [status      |-> 200,
                                completed   |-> FALSE,
                                freq        |-> test_state.current_test.frequency,
                                ear         |-> test_state.current_test.ear,
                                level       |-> test_state.current_test.current_level,
                                progress    |-> Frac(current_test_index * 100, total_tests),
                                test_number |-> current_test_index + 1,
                                total_tests |-> total_tests]
                /\ UNCHANGED <<user_result, screening_sessions>>
    /\ UNCHANGED <<test_state, auth_type, habit, lapses, aside>>

----------------------------------------------------------------------------
(* Sessions with their results stored: a listener with few lapses, and a  *)
(* registered user of either kind                                          *)

\* lapses of the listener when results are stored
MaxSaveLapses == 1
\* sessions stored over a behaviour
MaxSaves == 2

ListenerFew(heard) ==
    /\ Has(test_state, "current_test_index") => test_state.current_test_index < MaxIndex
    /\ IsLapse(heard) => lapses < MaxSaveLapses
    /\ lapses' = IF IsLapse(heard) THEN lapses + 1 ELSE lapses

AnswerFew ==
    /\ \E heard \in HeardValues : ListenerFew(heard) /\ submit_response(heard)
    /\ UNCHANGED output

\* datetime.now() does not go back, and may repeat
Poll ==
    /\ Cardinality(SessionIds(screening_sessions)) < MaxSaves
    /\ \E now \in {LastTimestamp(screening_sessions), LastTimestamp(screening_sessions) + 1} :
          now >= 1 /\ next_test(now)

InitSave ==
    /\ test_state = EmptyDict
    /\ request = [op |-> "register", heard |-> "null"]
    /\ response = [status |-> 200, is_new |-> TRUE]
    /\ habit \in BOOLEAN
    /\ lapses = 0
    /\ trials = << >>
    /\ estimate = << >>
    /\ auth_type \in {"guest", "authenticated"}
    /\ user_result = NoResult
    /\ screening_sessions = {}
    /\ inflight = NoRequests
    /\ input = << >>
    /\ output = << >>

NextSave == start_test \/ AnswerFew \/ Poll

SpecSave == InitSave /\ [][NextSave]_vars

----------------------------------------------------------------------------
(* Aggregation harness: the completion summary of next_test applied to     *)
(* threshold maps, maps with missing entries included                      *)

\* entries of a map that are set freely
MaxMeasured == 3

AggLevels == {-10, 15, 40}

ThresholdKeys == {"5000", "4000", "2000", "1000", "500", "250"}

AggSlots == {"left", "right"} \X ThresholdKeys

AggAssignments ==
    UNION {[D -> AggLevels] : D \in {E \in SUBSET AggSlots : Cardinality(E) <= MaxMeasured}}

\* the map that holds the assigned entries only
SparseMap(a) ==
    [left  |-> [k \in {q \in ThresholdKeys : <<"left", q>> \in DOMAIN a} |-> a[<<"left", k>>]],
     right |-> [k \in {q \in ThresholdKeys : <<"right", q>> \in DOMAIN a} |-> a[<<"right", k>>]]]

\* the map of a completed session: every entry set, 40.0 where not assigned
FullMap(a) ==
    [left  |-> [k \in ThresholdKeys |-> IF <<"left", k>> \in DOMAIN a THEN a[<<"left", k>>] ELSE 40],
     right |-> [k \in ThresholdKeys |-> IF <<"right", k>> \in DOMAIN a THEN a[<<"right", k>>] ELSE 40]]

InitAgg ==
    /\ test_state = EmptyDict
    /\ request = [op |-> "register", heard |-> "null"]
    /\ response = [status |-> 200, is_new |-> TRUE]
    /\ habit = TRUE
    /\ lapses = 0
    /\ trials = << >>
    /\ estimate = << >>
    /\ auth_type = "authenticated"
    /\ user_result = NoResult
    /\ screening_sessions = {}
    /\ inflight = NoRequests
    /\ input \in {SparseMap(a) : a \in AggAssignments} \cup {FullMap(a) : a \in AggAssignments}
    /\ output = << >>

Aggregate ==
    /\ output = << >>
    /\ output' = <<Summarize(input)>>
    /\ UNCHANGED <<test_state, request, response, habit, lapses, trials, estimate,
                   store, inflight, input>>

NextAgg == Aggregate

SpecAgg == InitAgg /\ [][NextAgg]_vars

----------------------------------------------------------------------------
(* compute_interaural_differences and POST /user/interaural-analysis *)

\* sum of f[x] over the elements x of S
RECURSIVE SumOver(_, _)
SumOver(f, S) ==
    IF S = {} THEN 0
    ELSE LET x == CHOOSE y \in S : TRUE IN f[x] + SumOver(f, S \ {x})

\* variant: right minus left
SignedDiff_Reversed(left_val, right_val) == right_val - left_val

\* signed_diff = left_val - right_val
SignedDiff(left_val, right_val) == left_val - right_val

\* the dict returned when there are common frequencies; thresholds that are
\* numbers never take the except branch, so every common frequency is compared
InterauralResult(left_data, right_data, common_frequencies) ==
    LET abs_diff    == [k \in common_frequencies |-> Abs(left_data[k] - right_data[k])]
        signed_diff == [k \in common_frequencies |-> SignedDiff(left_data[k], right_data[k])]
        abs_diffs    == {abs_diff[k] : k \in common_frequencies}
        signed_diffs == {signed_diff[k] : k \in common_frequencies}
        n            == Cardinality(common_frequencies)
    IN  [per_frequency |->
            [f \in {IntOf(k) : k \in common_frequencies} |->
                [left_threshold      |-> left_data[ToString(f)],
                 right_threshold     |-> right_data[ToString(f)],
                 absolute_difference |-> abs_diff[ToString(f)],
                 signed_difference   |-> signed_diff[ToString(f)],
                 frequency_hz        |-> f]],
         summary_stats |->
            [max_absolute_difference  |-> Max(abs_diffs),
             min_absolute_difference  |-> Min(abs_diffs),
             mean_absolute_difference |-> Frac(SumOver(abs_diff, common_frequencies), n),
             max_signed_difference    |-> Max(signed_diffs),
             min_signed_difference    |-> Min(signed_diffs),
             mean_signed_difference   |-> Frac(SumOver(signed_diff, common_frequencies), n),
             frequencies_compared     |-> n,
             total_frequencies        |-> n]]

\* variant: an analysis of nothing instead of None
compute_interaural_differences_Empty(thresholds) ==
    IF DOMAIN thresholds = {} \/ ~Has(thresholds, "left") \/ ~Has(thresholds, "right")
    THEN << >>
    ELSE LET common_frequencies == (DOMAIN thresholds.left) \cap (DOMAIN thresholds.right)
         IN  IF common_frequencies = {}
             THEN <<[per_frequency |-> << >>,
                     summary_stats |-> [frequencies_compared |-> 0, total_frequencies |-> 0]]>>
             ELSE <<InterauralResult(thresholds.left, thresholds.right, common_frequencies)>>

\* <<>> is None
compute_interaural_differences(thresholds) ==
    IF DOMAIN thresholds = {} \/ ~Has(thresholds, "left") \/ ~Has(thresholds, "right")
    THEN << >>
    ELSE LET common_frequencies == (DOMAIN thresholds.left) \cap (DOMAIN thresholds.right)
         IN  IF common_frequencies = {} THEN << >>
             ELSE <<InterauralResult(thresholds.left, thresholds.right, common_frequencies)>>

\* the response of the endpoint to a body whose 'thresholds' is the argument
analyze_interaural_differences(thresholds) ==
    IF DOMAIN thresholds = {}
    THEN [status |-> 400, error |-> "Threshold data required"]
    ELSE LET analysis == compute_interaural_differences(thresholds)
         IN  IF analysis = << >>
             THEN [status |-> 400,
                   error  |-> "Unable to compute differences - insufficient data"]
             ELSE [status                    |-> 200,
                   frequencies_analyzed      |-> analysis[1].summary_stats.frequencies_compared,
                   per_frequency_differences |-> analysis[1].per_frequency,
                   summary_statistics        |-> analysis[1].summary_stats]

----------------------------------------------------------------------------
(* Interaural harness: threshold maps over a few frequencies, an ear that *)
(* is empty or missing included                                            *)

\* frequencies of the maps handed to the interaural analysis
MaxIaKeys == 3

IaKeyOrder == <<"1000", "4000", "250", "2000", "500", "5000">>

IaKeys == {IaKeyOrder[i] : i \in 1..MaxIaKeys}

IaLevels == {10, 30, 45}

IaEarMaps == UNION {[D -> IaLevels] : D \in SUBSET IaKeys}

IaInputs ==
    {[left |-> l, right |-> r] : l \in IaEarMaps, r \in IaEarMaps}
        \cup {[left |-> l] : l \in IaEarMaps}
        \cup {[right |-> r] : r \in IaEarMaps}
        \cup {EmptyDict}

InitIa ==
    /\ test_state = EmptyDict
    /\ request = [op |-> "register", heard |-> "null"]
    /\ response = [status |-> 200, is_new |-> TRUE]
    /\ habit = TRUE
    /\ lapses = 0
    /\ trials = << >>
    /\ estimate = << >>
    /\ auth_type = "authenticated"
    /\ user_result = NoResult
    /\ screening_sessions = {}
    /\ inflight = NoRequests
    /\ input \in IaInputs
    /\ output = << >>

AnalyzeInteraural ==
    /\ output = << >>
    /\ output' = <<[analysis |-> compute_interaural_differences(input),
                    response |-> analyze_interaural_differences(input)]>>
    /\ UNCHANGED <<test_state, request, response, habit, lapses, trials, estimate,
                   store, inflight, input>>

NextIa == AnalyzeInteraural

SpecIa == InitIa /\ [][NextIa]_vars

----------------------------------------------------------------------------
(* analyze_session_trends *)

\* the rows of a query result that belong to one session and one ear
EarRows(sessions, session_id, ear) ==
    {r \in sessions : r.session_id = session_id /\ r.ear = ear}

\* interaural_diffs of a session: one entry per row whose frequency was also
\* fetched for the opposite ear
InterauralDiffs(sessions, session_id) ==
    {Abs(r.threshold_db - o.threshold_db) :
        <<r, o>> \in {p \in sessions \X sessions :
                        /\ p[1].session_id = session_id
                        /\ p[2].session_id = session_id
                        /\ p[2].ear # p[1].ear
                        /\ p[2].frequency_hz = p[1].frequency_hz}}

\* the entry of session_metrics of a session with 3 or more values per ear
SessionMetric(sessions, session_id) ==
    LET left_rows  == EarRows(sessions, session_id, "left")
        right_rows == EarRows(sessions, session_id, "right")
        left_avg   == Frac(SumOver([r \in left_rows |-> r.threshold_db], left_rows),
                           Cardinality(left_rows))
        right_avg  == Frac(SumOver([r \in right_rows |-> r.threshold_db], right_rows),
                           Cardinality(right_rows))
        diffs      == InterauralDiffs(sessions, session_id)
    IN  [session_id          |-> session_id,
         timestamp           |-> (CHOOSE r \in sessions : r.session_id = session_id).timestamp,
         left_avg            |-> left_avg,
         right_avg           |-> right_avg,
         overall_avg         |-> FDiv(FAdd(left_avg, right_avg), FromInt(2)),
         max_interaural_diff |-> FromInt(IF diffs = {} THEN 0 ELSE Max(diffs))]

\* variant: one value per ear is enough
IsComplete_OnePerEar(sessions, session_id) ==
    /\ Cardinality(EarRows(sessions, session_id, "left")) >= 1
    /\ Cardinality(EarRows(sessions, session_id, "right")) >= 1

\* len(left_thresholds) >= 3 and len(right_thresholds) >= 3
IsComplete(sessions, session_id) ==
    /\ Cardinality(EarRows(sessions, session_id, "left")) >= 3
    /\ Cardinality(EarRows(sessions, session_id, "right")) >= 3

\* session_metrics before the sort: the complete sessions in the order in
\* which their ids first appear in the query result
RECURSIVE SessionMetrics(_, _)
SessionMetrics(sessions, order) ==
    IF Len(order) = 0 THEN << >>
    ELSE IF IsComplete(sessions, order[1])
         THEN <<SessionMetric(sessions, order[1])>> \o SessionMetrics(sessions, Tail(order))
         ELSE SessionMetrics(sessions, Tail(order))

\* list.sort(key=timestamp): stable, ties keep their order
RECURSIVE SortByTimestamp(_)
SortByTimestamp(metrics) ==
    IF Len(metrics) = 0 THEN << >>
    ELSE LET rest == SortByTimestamp(Tail(metrics))
             k    == Cardinality({i \in 1..Len(rest) : rest[i].timestamp < metrics[1].timestamp})
         IN  SubSeq(rest, 1, k) \o <<metrics[1]>> \o SubSeq(rest, k + 1, Len(rest))

\* sum of (x - mean_val) ** 2
RECURSIVE SumSquares(_, _)
SumSquares(values, mean_val) ==
    IF Len(values) = 0 THEN FromInt(0)
    ELSE FAdd(FMul(FSub(values[1], mean_val), FSub(values[1], mean_val)),
              SumSquares(Tail(values), mean_val))

\* variant: sample variance
calculate_variance_Sample(values) ==
    IF Len(values) < 2 THEN FromInt(0)
    ELSE LET mean_val == FDiv(FSum(values), FromInt(Len(values)))
         IN  FDiv(SumSquares(values, mean_val), FromInt(Len(values) - 1))

calculate_variance(values) ==
    IF Len(values) < 2 THEN FromInt(0)
    ELSE LET mean_val == FDiv(FSum(values), FromInt(Len(values)))
         IN  FDiv(SumSquares(values, mean_val), FromInt(Len(values)))

calculate_trend(values) ==
    IF Len(values) < 3 THEN FromInt(0)
    ELSE LET n      == Len(values)
             x_mean == Frac(SumSeq([i \in 1..n |-> i - 1]), n)
             y_mean == FDiv(FSum(values), FromInt(n))
             numerator ==
                 FSum([i \in 1..n |-> FMul(FSub(FromInt(i - 1), x_mean),
                                           FSub(values[i], y_mean))])
             denominator ==
                 FSum([i \in 1..n |-> FMul(FSub(FromInt(i - 1), x_mean),
                                           FSub(FromInt(i - 1), x_mean))])
         IN  IF denominator.num # 0 THEN FDiv(numerator, denominator) ELSE FromInt(0)

\* max of three quotients
FMax3(a, b, c) ==
    LET ab == IF FLe(a, b) THEN b ELSE a
    IN  IF FLe(ab, c) THEN c ELSE ab

stable_threshold == 25

variable_threshold == 100

trend_threshold == 2

\* variant: the interaural slope does not count
SignificantTrend_OverallOnly(overall_trend, interaural_trend) ==
    FLt(FromInt(trend_threshold), FAbs(overall_trend))

\* abs(overall_trend) > trend_threshold or abs(interaural_trend) > 1.0
SignificantTrend(overall_trend, interaural_trend) ==
    \/ FLt(FromInt(trend_threshold), FAbs(overall_trend))
    \/ FLt(FromInt(1), FAbs(interaural_trend))

\* the classification of a sorted list of two or more session metrics; the
\* variances and slopes are the values before they are rounded for display
ClassifyTrend(session_metrics) ==
    LET overall_avgs     == [i \in 1..Len(session_metrics) |-> session_metrics[i].overall_avg]
        left_avgs        == [i \in 1..Len(session_metrics) |-> session_metrics[i].left_avg]
        right_avgs       == [i \in 1..Len(session_metrics) |-> session_metrics[i].right_avg]
        interaural_maxes == [i \in 1..Len(session_metrics) |->
                                session_metrics[i].max_interaural_diff]
        overall_variance    == calculate_variance(overall_avgs)
        left_variance       == calculate_variance(left_avgs)
        right_variance      == calculate_variance(right_avgs)
        interaural_variance == calculate_variance(interaural_maxes)
        overall_trend       == calculate_trend(overall_avgs)
        interaural_trend    == calculate_trend(interaural_maxes)
        max_variance        == FMax3(overall_variance, left_variance, right_variance)
        significant_trend   == SignificantTrend(overall_trend, interaural_trend)
        classification ==
            IF FLe(max_variance, FromInt(stable_threshold)) /\ ~significant_trend
            THEN "stable"
            ELSE IF FLe(max_variance, FromInt(variable_threshold)) /\ ~significant_trend
                 THEN "variable"
                 ELSE "changing"
        description ==
            IF classification = "stable" THEN "Consistent measurements across sessions"
            ELSE IF classification = "variable" THEN "Normal fluctuation in measurements"
            ELSE IF significant_trend
                 THEN IF overall_trend.num > 0
                      THEN "Notable variation with increasing trend"
                      ELSE "Notable variation with decreasing trend"
                 ELSE "High variation in measurements"
    IN  [classification    |-> classification,
         description       |-> description,
         sessions_analyzed |-> Len(session_metrics),
         session_metrics   |-> session_metrics,
         metrics |-> [overall_variance       |-> overall_variance,
                      left_ear_variance      |-> left_variance,
                      right_ear_variance     |-> right_variance,
                      interaural_variance    |-> interaural_variance,
                      overall_trend_slope    |-> overall_trend,
                      interaural_trend_slope |-> interaural_trend]]

\* the analysis of a query result: sessions are the fetched rows, order the
\* order in which the session ids first appear in them
analyze_session_trends(sessions, order) ==
    IF Cardinality(sessions) < 12
    THEN [classification |-> "insufficient_data", sessions_analyzed |-> 0,
          note |-> "Need at least one complete session for trend analysis"]
    ELSE LET session_metrics == SessionMetrics(sessions, order)
         IN  IF Len(session_metrics) < 2
             THEN [classification |-> "insufficient_data",
                   sessions_analyzed |-> Len(session_metrics),
                   note |-> "Need at least 2 complete sessions for trend analysis"]
             ELSE ClassifyTrend(SortByTimestamp(session_metrics))

----------------------------------------------------------------------------
(* Trend harness: histories of stored sessions, the query of the analysis  *)
(* over them, and the lists of test_trend_analysis.py                       *)

\* stored sessions of a history
MaxSessions == 3

\* the thresholds of a stored session: one level per ear
SessionProfiles == {<<20, 20>>, <<40, 40>>, <<15, 25>>, <<10, 30>>}

ProfileMap(p) ==
    [left |-> [k \in ThresholdKeys |-> p[1]], right |-> [k \in ThresholdKeys |-> p[2]]]

\* datetime.now() of consecutive saves: never decreases, may repeat
Stamps(n) ==
    {st \in [1..n -> 1..n] :
        /\ n > 0 => st[1] = 1
        /\ \A i \in 2..n : st[i] \in {st[i - 1], st[i - 1] + 1}}

\* the rows after n saves
HistoryRows(profiles, stamps) ==
    UNION {SessionRows(i, stamps[i], ProfileMap(profiles[i])) : i \in 1..Len(profiles)}

Histories ==
    UNION {{HistoryRows(ps, st) : ps \in [1..n -> SessionProfiles], st \in Stamps(n)} :
              n \in 0..MaxSessions}

\* the lists of demonstrate_classification_logic, as session metrics with
\* both ears at the overall average
ScenarioLists ==
    {<<FromInt(25), FromInt(26), Frac(49, 2), Frac(51, 2), Frac(126, 5)>>,
     <<FromInt(25), FromInt(30), FromInt(22), FromInt(28), FromInt(24)>>,
     <<FromInt(20), FromInt(25), FromInt(30), FromInt(35), FromInt(40)>>}

ScenarioMetrics(values) ==
    [i \in 1..Len(values) |->
        [session_id |-> i, timestamp |-> i, left_avg |-> values[i],
         right_avg |-> values[i], overall_avg |-> values[i],
         max_interaural_diff |-> FromInt(0)]]

TrendLimits == {2, 3}

\* position of a frequency in test_frequencies
RankOf(frequency_hz) == CHOOSE i \in 1..Len(test_frequencies) : test_frequencies[i] = frequency_hz

\* how many rows per ear of the session at the cut are fetched when the next
\* session has the same timestamp; that one gets the remaining counts
CutShapes ==
    {[left |-> 6, right |-> 6], [left |-> 0, right |-> 0], [left |-> 3, right |-> 3],
     [left |-> 2, right |-> 6], [left |-> 4, right |-> 0],
     [left |-> 3, right |-> 2], [left |-> 3, right |-> 4]}

\* the orders of the stored session ids that ORDER BY timestamp DESC allows
DescOrders(rows) ==
    LET ids == SessionIds(rows)
        n   == Cardinality(ids)
        ts(id) == (CHOOSE r \in rows : r.session_id = id).timestamp
    IN  {o \in [1..n -> ids] :
            /\ \A i, j \in 1..n : i # j => o[i] # o[j]
            /\ \A i \in 1..n : \A j \in 1..n : i < j => ts(o[i]) >= ts(o[j])}

\* the first count[ear] rows per ear of a session
PartOf(rows, session_id, count) ==
    {r \in rows : r.session_id = session_id /\ RankOf(r.frequency_hz) <= count[r.ear]}

\* results of  filter_by(user_id).order_by(timestamp.desc()).limit(limit * 12):
\* whole sessions, except that two sessions with the same timestamp at the
\* cut may each be fetched in part
QueryResults(rows, limit) ==
    LET n == Cardinality(SessionIds(rows))
        ts(id) == (CHOOSE r \in rows : r.session_id = id).timestamp
        whole(o, m) == {r \in rows : \E i \in 1..m : o[i] = r.session_id}
    IN  IF n <= limit
        THEN {[sessions |-> rows, order |-> o] : o \in DescOrders(rows)}
        ELSE UNION {
               IF ts(o[limit]) = ts(o[limit + 1])
               THEN {[sessions |-> whole(o, limit - 1)
                                     \cup PartOf(rows, o[limit], c)
                                     \cup PartOf(rows, o[limit + 1],
                                                 [left |-> 6 - c.left, right |-> 6 - c.right]),
                      order |-> SubSeq(o, 1, limit + 1)] : c \in CutShapes}
               ELSE {[sessions |-> whole(o, limit), order |-> SubSeq(o, 1, limit)]}
             : o \in DescOrders(rows)}

InitTrend ==
    /\ test_state = EmptyDict
    /\ request = [op |-> "register", heard |-> "null"]
    /\ response = [status |-> 200, is_new |-> TRUE]
    /\ habit = TRUE
    /\ lapses = 0
    /\ trials = << >>
    /\ estimate = << >>
    /\ auth_type = "authenticated"
    /\ user_result = NoResult
    /\ inflight = NoRequests
    /\ \/ screening_sessions \in Histories /\ input = << >>
       \/ screening_sessions = {} /\ input \in ScenarioLists
    /\ output = << >>

\* analyze_session_trends(user.id, limit) over the stored rows
AnalyzeTrends ==
    /\ output = << >>
    /\ input = << >>
    /\ \E limit \in TrendLimits : \E q \in QueryResults(screening_sessions, limit) :
          output' = <<[limit    |-> limit,
                       sessions |-> q.sessions,
                       result   |-> analyze_session_trends(q.sessions, q.order)]>>
    /\ UNCHANGED <<test_state, request, response, habit, lapses, trials, estimate,
                   store, inflight, input>>

\* the classification of a list of test_trend_analysis.py
ClassifyList ==
    /\ output = << >>
    /\ input # << >>
    /\ output' = <<[limit    |-> Len(input),
                    sessions |-> {},
                    result   |-> ClassifyTrend(ScenarioMetrics(input))]>>
    /\ UNCHANGED <<test_state, request, response, habit, lapses, trials, estimate,
                   store, inflight, input>>

NextTrend == AnalyzeTrends \/ ClassifyList

SpecTrend == InitTrend /\ [][NextTrend]_vars

----------------------------------------------------------------------------
(* Concurrent submit_response requests of one user: each request reads     *)
(* user.test_state, updates its copy and commits it; nothing in the        *)
(* handler or the model orders two requests                                 *)

\* answers against the habit while requests overlap
MaxConcLapses == 1

\* runs completed while requests overlap
MaxConcIndex == 2

\* user.test_state = json.dumps(test_state); db.session.commit(): the value
\* written is computed from the copy the request loaded
CommitValue(loaded, heard) == Persist(SubmitUpdate(loaded, heard))

\* the request of worker w up to json.loads(user.test_state), with its
\* early returns
BeginSubmit(w, heard) ==
    /\ inflight[w] = << >>
    /\ Has(test_state, "current_test_index") => test_state.current_test_index < MaxConcIndex
    /\ IsLapse(heard) => lapses < MaxConcLapses
    /\ lapses' = IF IsLapse(heard) THEN lapses + 1 ELSE lapses
    /\ IF heard = "null"
       THEN /\ request' = [op |-> "submit_response", heard |-> heard]
            /\ response' = [status |-> 400, error |-> "User ID and response required"]
            /\ UNCHANGED inflight
       ELSE IF ~Has(test_state, "current_test")
       THEN /\ request' = [op |-> "submit_response", heard |-> heard]
            /\ response' = [status |-> 500, error |-> "Invalid test state: no current test"]
            /\ UNCHANGED inflight
       ELSE /\ inflight' = [inflight EXCEPT ![w] = <<[state |-> test_state, heard |-> heard]>>]
            /\ UNCHANGED <<request, response>>
    /\ UNCHANGED <<test_state, habit, trials, estimate, store, input, output>>

\* the rest of the request of worker w: the update of its copy and the commit
FinishSubmit(w) ==
    /\ inflight[w] # << >>
    /\ test_state' = CommitValue(inflight[w][1].state, inflight[w][1].heard)
    /\ request' = [op |-> "submit_response", heard |-> inflight[w][1].heard]
    /\ response' = [status |-> 200, success |-> TRUE]
    /\ inflight' = [inflight EXCEPT ![w] = << >>]
    /\ UNCHANGED <<habit, lapses, trials, estimate, store, input, output>>

AnswerBegin == \E w \in Workers : \E heard \in HeardValues : BeginSubmit(w, heard)

AnswerFinish == \E w \in Workers : FinishSubmit(w)

NextConc == start_test \/ AnswerBegin \/ AnswerFinish

SpecConc == Init /\ [][NextConc]_vars

----------------------------------------------------------------------------
(* POST /save_results, and the sessions of SpecSave with it *)

\* the bodies posted: no figure, one figure, all three
SaveBodies ==
    {NoResult,
     [left_avg |-> <<FromInt(25)>>, right_avg |-> << >>, dissimilarity |-> << >>],
     [left_avg |-> <<FromInt(25)>>, right_avg |-> <<FromInt(30)>>,
      dissimilarity |-> <<FromInt(5)>>]}

save_results(body) ==
    /\ request' = [op |-> "save_results", heard |-> "null"]
    /\ IF auth_type # "authenticated"
       THEN /\ response' = [status |-> 200, success |-> TRUE,
                            message |-> "Guest session - results not stored for privacy"]
            /\ UNCHANGED user_result
       ELSE /\ user_result' = [f \in DOMAIN user_result |->
                                  IF body[f] # << >> THEN body[f] ELSE user_result[f]]
            /\ response' = [status |-> 200, success |-> TRUE,
                            message |-> "Results saved successfully"]
    /\ UNCHANGED <<test_state, auth_type, screening_sessions, habit, lapses, aside>>

SaveResults == \E body \in SaveBodies : save_results(body)

NextStore == start_test \/ AnswerFew \/ Poll \/ SaveResults

SpecStore == InitSave /\ [][NextStore]_vars

----------------------------------------------------------------------------
(* get_session_summary and GET /user/test-history *)

\* the threshold of an ear at a frequency among the rows of a session
\* (<<>> is None)
ValueAt(results, ear, frequency_hz) ==
    LET found == {r \in results : r.ear = ear /\ r.frequency_hz = frequency_hz}
    IN  IF found = {} THEN << >> ELSE <<(CHOOSE r \in found : TRUE).threshold_db>>

\* variant: the largest signed difference
FreqDiff_Signed(left_val, right_val) == left_val - right_val

\* abs_diff = abs(left_val - right_val)
FreqDiff(left_val, right_val) == Abs(left_val - right_val)

\* <<>> is None
get_session_summary(rows, session_id) ==
    LET results          == {r \in rows : r.session_id = session_id}
        left_thresholds  == {r \in results : r.ear = "left"}
        right_thresholds == {r \in results : r.ear = "right"}
        frequencies      == {r.frequency_hz : r \in results}
        compared         == {f \in frequencies : /\ ValueAt(results, "left", f) # << >>
                                                 /\ ValueAt(results, "right", f) # << >>}
        freq_diffs       == {FreqDiff(ValueAt(results, "left", f)[1],
                                      ValueAt(results, "right", f)[1]) : f \in compared}
    IN  IF results = {} THEN << >>
        ELSE <<[session_id      |-> session_id,
                left_avg        |-> IF left_thresholds = {} THEN << >>
                                    ELSE <<Frac(SumOver([r \in left_thresholds |-> r.threshold_db],
                                                        left_thresholds),
                                                Cardinality(left_thresholds))>>,
                right_avg       |-> IF right_thresholds = {} THEN << >>
                                    ELSE <<Frac(SumOver([r \in right_thresholds |-> r.threshold_db],
                                                        right_thresholds),
                                                Cardinality(right_thresholds))>>,
                frequency_count |-> Cardinality(results),
                ears_tested     |-> Cardinality({r.ear : r \in results}),
                dissimilarity   |-> IF freq_diffs = {} THEN << >> ELSE <<Max(freq_diffs)>>]>>

\* list[start:stop] of Python, negative positions counted from the end
PySlice(list, start, stop) ==
    LET n       == Len(list)
        pos(i)  == IF i < 0 THEN Max({0, n + i}) ELSE Min({i, n})
    IN  IF pos(start) < pos(stop) THEN SubSeq(list, pos(start) + 1, pos(stop)) ELSE << >>

\* offset + limit if (offset + len(history)) < total_sessions else None
NextOffset(offset, limit, returned, total_sessions) ==
    IF offset + returned < total_sessions THEN <<offset + limit>> ELSE << >>

\* the entry of one session in 'history'
SessionEntry(rows, session_id) ==
    LET results == {r \in rows : r.session_id = session_id}
        summary == get_session_summary(rows, session_id)
    IN  [session_id |-> session_id,
         timestamp  |-> (CHOOSE r \in results : TRUE).timestamp,
         summary    |-> IF summary = << >>
                        THEN [left_avg |-> << >>, right_avg |-> << >>, dissimilarity |-> << >>]
                        ELSE [left_avg      |-> summary[1].left_avg,
                              right_avg     |-> summary[1].right_avg,
                              dissimilarity |-> summary[1].dissimilarity],
         metadata   |-> [is_complete     |-> Cardinality(results) >= 12,
                         frequency_count |-> Cardinality(results)]]

\* the response to  limit=limit_arg&offset=offset  when the query returns the
\* sessions in the order sessions_list
get_test_history(sessions_list, limit_arg, offset) ==
    LET limit == Min({limit_arg, 100})
    IN  IF auth_type # "authenticated"
        THEN [status |-> 403, error |-> "Test history only available for authenticated users"]
        ELSE IF screening_sessions = {}
        THEN [status     |-> 200,
              history    |-> << >>,
              statistics |-> [total_sessions |-> 0, returned_sessions |-> 0,
                              has_more |-> FALSE,
                              pagination |-> [limit |-> limit, offset |-> offset,
                                              next_offset |-> << >>]]]
        ELSE LET total_sessions     == Len(sessions_list)
                 paginated_sessions == PySlice(sessions_list, offset, offset + limit)
                 history == [i \in 1..Len(paginated_sessions) |->
                                SessionEntry(screening_sessions, paginated_sessions[i])]
             IN  [status     |-> 200,
                  history    |-> history,
                  statistics |-> [total_sessions    |-> total_sessions,
                                  returned_sessions |-> Len(history),
                                  has_more |-> (offset + Len(history)) < total_sessions,
                                  pagination |->
                                      [limit |-> limit, offset |-> offset,
                                       next_offset |-> NextOffset(offset, limit, Len(history),
                                                                  total_sessions)]]]

----------------------------------------------------------------------------
(* History harness: a client that pages through the history of a user by  *)
(* following next_offset from offset 0                                      *)

\* pages a client fetches
MaxPages == 5

PagingProfiles == {<<20, 20>>, <<10, 30>>}

PagingHistories ==
    UNION {{HistoryRows(ps, st) : ps \in [1..n -> PagingProfiles], st \in Stamps(n)} :
              n \in 0..MaxSessions}

\* values of the limit parameter; the endpoint caps it at 100
PagingLimits == {-1, 0, 1, 2, 150}

InitHist ==
    /\ test_state = EmptyDict
    /\ request = [op |-> "register", heard |-> "null"]
    /\ response = [status |-> 200, is_new |-> TRUE]
    /\ habit = TRUE
    /\ lapses = 0
    /\ trials = << >>
    /\ estimate = << >>
    /\ user_result = NoResult
    /\ inflight = NoRequests
    /\ \/ auth_type = "authenticated" /\ screening_sessions \in PagingHistories
       \/ auth_type = "guest" /\ screening_sessions = {}
    /\ input \in {[limit |-> l] : l \in PagingLimits}
    /\ output = << >>

\* the next request of the client; rows with equal timestamps come back in
\* any order
FetchPage ==
    /\ Len(output) < MaxPages
    /\ output # << >> =>
          /\ output[Len(output)].status = 200
          /\ output[Len(output)].statistics.pagination.next_offset # << >>
    /\ LET offset == IF output = << >> THEN 0
                     ELSE output[Len(output)].statistics.pagination.next_offset[1]
       IN  \E sessions_list \in DescOrders(screening_sessions) :
              output' = Append(output, get_test_history(sessions_list, input.limit, offset))
    /\ UNCHANGED <<test_state, request, response, habit, lapses, trials, estimate,
                   store, inflight, input>>

NextHist == FetchPage

SpecHist == InitHist /\ [][NextHist]_vars

----------------------------------------------------------------------------
(* A session answered to its end by a listener who answers as they like in *)
(* the first runs and by habit afterwards; the client counts the answers    *)
(* the server accepted                                                       *)

\* runs in which the listener answers freely
MaxFreeRuns == 1

ListenerFree(heard) ==
    /\ Has(test_state, "current_test_index") => test_state.current_test_index < MaxIndex
    /\ (/\ heard # "null"
        /\ Has(test_state, "current_test_index")
        /\ test_state.current_test_index >= MaxFreeRuns) => Truthy(heard) = habit
    /\ UNCHANGED lapses

\* output[1]: the answers accepted since the test was started
CountedAnswer ==
    /\ \E heard \in HeardValues : ListenerFree(heard) /\ submit_response(heard)
    /\ output' = IF response'.status = 200 THEN <<output[1] + 1>> ELSE output

\* the test is started once and not restarted
FirstStart == ~Has(test_state, "current_test") /\ start_test

InitSession ==
    /\ test_state = EmptyDict
    /\ request = [op |-> "register", heard |-> "null"]
    /\ response = [status |-> 200, is_new |-> TRUE]
    /\ habit \in BOOLEAN
    /\ lapses = 0
    /\ trials = << >>
    /\ estimate = << >>
    /\ auth_type = "authenticated"
    /\ user_result = NoResult
    /\ screening_sessions = {}
    /\ inflight = NoRequests
    /\ input = << >>
    /\ output = <<0>>

NextSession == FirstStart \/ CountedAnswer

SpecSession == InitSession /\ [][NextSession]_vars

----------------------------------------------------------------------------
(* One session from its start to its stored result, never restarted *)

NextOnce == FirstStart \/ AnswerFew \/ Poll

SpecOnce == InitSave /\ [][NextOnce]_vars

----------------------------------------------------------------------------
(* The three aggregations of one completed session: the completion branch  *)
(* of next_test, get_session_summary over the rows it stores, and           *)
(* compute_interaural_differences over the thresholds it returns            *)

ComparePaths ==
    /\ output = << >>
    /\ LET completion == Summarize(input)
           rows       == SessionRows(1, 1, completion.thresholds)
       IN  output' = <<[completion |-> completion,
                        rows       |-> rows,
                        stored     |-> get_session_summary(rows, 1),
                        interaural |-> compute_interaural_differences(completion.thresholds)]>>
    /\ UNCHANGED <<test_state, request, response, habit, lapses, trials, estimate,
                   store, inflight, input>>

NextPaths == ComparePaths

SpecPaths == InitAgg /\ [][NextPaths]_vars

----------------------------------------------------------------------------
(* Views of the state used by the properties *)

\* a test has been started: test_state has a current_test
Started == Has(test_state, "current_test")

\* the fixed order of the 12 (frequency, ear) pairs, written out
ExpectedOrder ==
    << [freq |-> 5000, ear |-> "right"], [freq |-> 5000, ear |-> "left"],
       [freq |-> 4000, ear |-> "right"], [freq |-> 4000, ear |-> "left"],
       [freq |-> 2000, ear |-> "right"], [freq |-> 2000, ear |-> "left"],
       [freq |-> 1000, ear |-> "right"], [freq |-> 1000, ear |-> "left"],
       [freq |-> 500,  ear |-> "right"], [freq |-> 500,  ear |-> "left"],
       [freq |-> 250,  ear |-> "right"], [freq |-> 250,  ear |-> "left"] >>

\* the key under which the stored thresholds hold a frequency
KeyOf(freq) ==
    CASE freq = 5000 -> "5000" [] freq = 4000 -> "4000" [] freq = 2000 -> "2000"
      [] freq = 1000 -> "1000" [] freq = 500 -> "500" [] freq = 250 -> "250"

\* the k-th pair of the order, as the ear and the key of its threshold
ExpectedEntry(k) == [ear |-> ExpectedOrder[k].ear, key |-> KeyOf(ExpectedOrder[k].freq)]

\* the (ear, key) entries that hold a threshold in a test_state
Recorded(state) ==
    UNION {{[ear |-> e, key |-> k] : k \in DOMAIN state.thresholds[e]} : e \in {"left", "right"}}

\* the step served a submit_response that was accepted on a started test
AcceptedSubmit ==
    /\ Started
    /\ request'.op = "submit_response"
    /\ request'.heard # "null"
    /\ response'.status = 200

\* the step ended the active run: the cursor advanced
RunEnded == test_state'.current_test_index = test_state.current_test_index + 1

----------------------------------------------------------------------------
\* C1: in every reachable state with a started test, whatever the answers,
\* the active run's current_level is within [-10, 40].
C1_LevelInRange ==
    Started =>
        /\ test_state.current_test.current_level >= -10
        /\ test_state.current_test.current_level <= 40

\* the floor has been reached by heard answers, after a miss raised the level
C1_Witness ==
    /\ Started
    /\ test_state.current_test.current_level = -10
    /\ \E i \in 1..Len(test_state.current_test.responses) :
          test_state.current_test.responses[i].heard = "false"

\* C2: the pairs that have a threshold are always the first
\* min(current_test_index, 12) pairs of the order 5000, 4000, 2000, 1000, 500,
\* 250 Hz with right before left, and the k-th run that ends (k <= 12) writes
\* the threshold of the k-th pair and leaves every other threshold alone.
C2_FixedOrder ==
    /\ [](Started =>
            Recorded(test_state) =
                {ExpectedEntry(i) : i \in 1..Min({test_state.current_test_index, 12})})
    /\ [][(AcceptedSubmit /\ RunEnded /\ test_state.current_test_index < 12) =>
            LET p == ExpectedEntry(test_state.current_test_index + 1)
            IN  /\ Recorded(test_state') = Recorded(test_state) \cup {p}
                /\ p \notin Recorded(test_state)
                /\ \A q \in Recorded(test_state) :
                      test_state'.thresholds[q.ear][q.key]
                          = test_state.thresholds[q.ear][q.key]]_vars

\* all 12 runs have ended, with runs of different lengths
C2_Witness ==
    /\ Started
    /\ test_state.current_test_index = 12
    /\ Cardinality(Recorded(test_state)) = 12
    /\ lapses > 0

\* C3: an accepted submit_response ends the active run iff heard is true and
\* the level was already -10, or trial_count after the increment is at least
\* 12; a not-heard answer at level 40 never ends a run before the 12th trial.
C3_Termination ==
    [][AcceptedSubmit =>
        LET ct == test_state.current_test
        IN  /\ RunEnded <=>
                  \/ request'.heard = "true" /\ ct.current_level = -10
                  \/ ct.trial_count + 1 >= 12
            /\ RunEnded =>
                  KeyOf(ct.frequency) \in DOMAIN test_state'.thresholds[ct.ear]
            /\ ~RunEnded =>
                  /\ test_state'.current_test_index = test_state.current_test_index
                  /\ test_state'.thresholds = test_state.thresholds
            /\ (request'.heard = "false" /\ ct.current_level = 40 /\ ct.trial_count + 1 < 12)
                  => ~RunEnded]_vars

\* a run has just ended on a not-heard answer, and the next run is fresh
C3_Witness ==
    /\ Started
    /\ request.op = "submit_response"
    /\ request.heard = "false"
    /\ response.status = 200
    /\ test_state.current_test_index \in 1..11
    /\ test_state.current_test.trial_count = 0

\* C4: in every reachable state, also after the 12th run has ended, the active
\* run's trial_count is at most max_trials = 12 and its trial list holds at
\* most 12 trials.
C4_TrialBound ==
    Started =>
        /\ test_state.current_test.trial_count <= 12
        /\ Len(test_state.current_test.responses) <= 12

\* C5: a submit_response with an answer, served while no test is started or
\* when the cursor has reached 12, is answered with an error and accepted
\* nowhere in the state.
C5_InvalidStateSignalled ==
    [][(/\ request'.op = "submit_response"
        /\ request'.heard # "null"
        /\ (~Started \/ test_state.current_test_index >= 12))
        => (response'.status # 200 /\ test_state' = test_state)]_vars

\* C6: once current_test_index has reached 12 no submit_response changes the
\* thresholds, the cursor or the trial list, and current_test_index never
\* exceeds total_tests = 12.
C6_CompletedTerminal ==
    /\ [](Started => test_state.current_test_index <= 12)
    /\ [][(/\ Started
           /\ test_state.current_test_index >= 12
           /\ request'.op = "submit_response")
           => /\ test_state'.thresholds = test_state.thresholds
              /\ test_state'.current_test_index = test_state.current_test_index
              /\ test_state'.current_test.responses = test_state.current_test.responses]_vars

\* C7: start_test, served in any state, leaves the same fresh session: no
\* threshold for either ear, cursor 0, the 12 pairs in order, a run for
\* (5000 Hz, right) at level 40 with no trials, trial_count 0, max_trials 12;
\* and it answers progress 0, test_number 1, total_tests 12.
C7_FreshStart ==
    [][request'.op = "start_test" =>
        /\ test_state' =
              [thresholds         |-> [left |-> << >>, right |-> << >>],
               test_sequence      |-> ExpectedOrder,
               current_test_index |-> 0,
               total_tests        |-> 12,
               current_test       |-> [frequency     |-> 5000,
                                       ear           |-> "right",
                                       current_level |-> 40,
                                       responses     |-> << >>,
                                       trial_count   |-> 0,
                                       max_trials    |-> 12]]
        /\ response' = [status |-> 200, freq |-> 5000, ear |-> "right", level |-> 40,
                        progress |-> 0, test_number |-> 1, total_tests |-> 12]]_vars

\* start_test has been served after a test had received answers
C7_Witness ==
    /\ request.op = "start_test"
    /\ lapses > 0
    /\ Started
    /\ test_state.current_test_index = 0

----------------------------------------------------------------------------
(* The estimate, stated on the trial list as a whole *)

LevelsOf(t) == {t[i].level : i \in {j \in 1..Len(t) : Has(t[j], "level")}}

CountAt(t, l) == Cardinality({i \in 1..Len(t) : Has(t[i], "level") /\ t[i].level = l})

HeardAt(t, l) ==
    Cardinality({i \in 1..Len(t) : Has(t[i], "level") /\ t[i].level = l /\ t[i].heard = "true"})

\* hit rate at least 0.5
Qualifies(t, l) == 2 * HeardAt(t, l) >= CountAt(t, l)

ExpectedThreshold(t) ==
    IF \E l \in LevelsOf(t) : Qualifies(t, l)
    THEN CHOOSE l \in LevelsOf(t) :
            Qualifies(t, l) /\ \A m \in LevelsOf(t) : Qualifies(t, m) => l <= m
    ELSE IF \E l \in LevelsOf(t) : HeardAt(t, l) > 0
    THEN CHOOSE l \in LevelsOf(t) :
            HeardAt(t, l) > 0 /\ \A m \in LevelsOf(t) : HeardAt(t, m) > 0 => l <= m
    ELSE 40

\* C8: compute_threshold returns the lowest level whose hit rate is at least
\* 0.5; if no level qualifies, the lowest level with a heard answer; if there
\* is none, 40.0. The result is a level of the input, or 40.0.
C8_Estimate ==
    estimate # << >> =>
        /\ estimate[1] = ExpectedThreshold(trials)
        /\ estimate[1] \in LevelsOf(trials) \cup {40}

\* no level qualifies, and the estimate is the lower of two levels with a
\* heard answer
C8_Witness ==
    /\ estimate = <<20>>
    /\ \A l \in LevelsOf(trials) : ~Qualifies(trials, l)
    /\ HeardAt(trials, 40) > 0

----------------------------------------------------------------------------
\* every answer of the active run was heard = v
AllAnswers(ct, v) == \A i \in 1..Len(ct.responses) : ct.responses[i].heard = v

\* the active run is one of the 12 runs of the session
Active == Started /\ test_state.current_test_index < 12

\* C9: a run answered heard = true only presents 40, 30, 20, 10, 0, -10; it
\* does not end on any of the first five answers and ends on the sixth, and
\* the threshold recorded for its pair is -10.0.
C9_AlwaysHeard ==
    [][(AcceptedSubmit /\ Active /\ request'.heard = "true"
            /\ AllAnswers(test_state.current_test, "true")) =>
        LET ct == test_state.current_test
            k  == Len(ct.responses)
        IN  /\ k <= 5
            /\ ct.trial_count = k
            /\ ct.current_level = 40 - 10 * k
            /\ IF k < 5
               THEN /\ ~RunEnded
                    /\ test_state'.current_test.responses =
                          Append(ct.responses, [level |-> 40 - 10 * k, heard |-> "true"])
                    /\ test_state'.current_test.current_level = 30 - 10 * k
               ELSE /\ RunEnded
                    /\ test_state'.thresholds[ct.ear][KeyOf(ct.frequency)] = -10]_vars

\* the first run has ended at the floor in a session answered heard only
C9_Witness ==
    /\ Started
    /\ habit = TRUE
    /\ lapses = 0
    /\ request.heard = "true"
    /\ test_state.current_test_index = 1
    /\ test_state.current_test.trial_count = 0
    /\ test_state.thresholds.right["5000"] = -10

\* C10: a run answered heard = false only stays at level 40, does not end on
\* any of the first 11 answers and ends on the 12th, and the threshold
\* recorded for its pair is 40.0.
C10_NeverHeard ==
    [][(AcceptedSubmit /\ Active /\ request'.heard = "false"
            /\ AllAnswers(test_state.current_test, "false")) =>
        LET ct == test_state.current_test
            k  == Len(ct.responses)
        IN  /\ k <= 11
            /\ ct.trial_count = k
            /\ ct.current_level = 40
            /\ IF k < 11
               THEN /\ ~RunEnded
                    /\ test_state'.current_test.current_level = 40
                    /\ test_state'.current_test.trial_count = k + 1
               ELSE /\ RunEnded
                    /\ test_state'.thresholds[ct.ear][KeyOf(ct.frequency)] = 40]_vars

\* the first run has ended in a session answered not heard only
C10_Witness ==
    /\ Started
    /\ habit = FALSE
    /\ lapses = 0
    /\ request.heard = "false"
    /\ test_state.current_test_index = 1
    /\ test_state.current_test.trial_count = 0
    /\ test_state.thresholds.right["5000"] = 40

----------------------------------------------------------------------------
\* the value of an entry of a threshold map, 40.0 when it is missing
Entry(m, ear, key) == IF key \in DOMAIN m[ear] THEN m[ear][key] ELSE 40

EarSum(m, ear) ==
    Entry(m, ear, "5000") + Entry(m, ear, "4000") + Entry(m, ear, "2000")
        + Entry(m, ear, "1000") + Entry(m, ear, "500") + Entry(m, ear, "250")

PairedDiffs(m) ==
    {Abs(Entry(m, "left", k) - Entry(m, "right", k)) : k \in ThresholdKeys}

\* C11: the completion summary has left_avg and right_avg equal to the mean
\* over the 6 frequencies with 40.0 for a missing entry, max_diff equal to the
\* largest |left[f] - right[f]| (so max_diff >= 0), is_valid false iff all 12
\* values are 40.0, and the summary of the substituted map is the same summary.
C11_Summary ==
    output # << >> =>
        LET o == output[1]
        IN  /\ o.left_avg.num * 6 = o.left_avg.den * EarSum(input, "left")
            /\ o.right_avg.num * 6 = o.right_avg.den * EarSum(input, "right")
            /\ o.max_diff \in PairedDiffs(input)
            /\ \A d \in PairedDiffs(input) : d <= o.max_diff
            /\ o.max_diff >= 0
            /\ (o.is_valid = FALSE) <=>
                  \A e \in {"left", "right"}, k \in ThresholdKeys : Entry(input, e, k) = 40
            /\ Summarize(o.thresholds) = o

\* entries are missing, and the largest paired difference is smaller than the
\* spread of all the values
C11_Witness ==
    /\ output # << >>
    /\ DOMAIN input.right # ThresholdKeys
    /\ output[1].is_valid
    /\ output[1].max_diff = 25
    /\ \E k1, k2 \in ThresholdKeys : Entry(input, "left", k1) - Entry(input, "right", k2) = 50

----------------------------------------------------------------------------
\* the step served a next_test that reported completion
CompletionReported ==
    /\ request'.op = "next_test"
    /\ response'.status = 200
    /\ response'.completed

\* the request before was a next_test that reported completion too
ReportedBefore ==
    /\ request.op = "next_test"
    /\ response.status = 200
    /\ response.completed

\* C12: for an authenticated user the first next_test after the cursor reached
\* 12 stores one session_id with one row per (ear, frequency), and a next_test
\* repeated on the same completed test stores nothing more; rows already
\* written are neither duplicated nor changed.
C12_StoredOnce ==
    [][(CompletionReported /\ auth_type = "authenticated") =>
        /\ screening_sessions \subseteq screening_sessions'
        /\ IF ReportedBefore
           THEN screening_sessions' = screening_sessions
           ELSE /\ Cardinality(SessionIds(screening_sessions'))
                      = Cardinality(SessionIds(screening_sessions)) + 1
                /\ Cardinality(screening_sessions' \ screening_sessions) = 12]_vars

\* C13: every row written to screening_sessions holds a threshold that the
\* stored session state holds for that (ear, frequency), that is one that a
\* staircase run recorded; a substituted default is never written.
C13_OnlyMeasuredRows ==
    [][\A r \in screening_sessions' \ screening_sessions :
          /\ Has(test_state, "thresholds")
          /\ KeyOf(r.frequency_hz) \in DOMAIN test_state.thresholds[r.ear]
          /\ test_state.thresholds[r.ear][KeyOf(r.frequency_hz)] = r.threshold_db]_vars

\* a session of a listener who never hears has been stored: its rows hold
\* 40.0, recorded by the runs
C13_Witness ==
    /\ habit = FALSE
    /\ lapses = 0
    /\ Cardinality(screening_sessions) = 12
    /\ \A r \in screening_sessions : r.threshold_db = 40
    /\ request.op = "next_test"

----------------------------------------------------------------------------
\* the frequencies that have a threshold in both ears of a map
CommonKeys(m) ==
    {k \in ThresholdKeys : Has(m, "left") /\ Has(m, "right")
                              /\ k \in DOMAIN m["left"] /\ k \in DOMAIN m["right"]}

\* C14: on a map whose ears share no frequency, an empty ear and a missing ear
\* key included, compute_interaural_differences returns None, and the endpoint
\* answers 400, with the insufficient-data message whenever the map is not
\* the empty dict.
C14_NoCommonFrequency ==
    (output # << >> /\ CommonKeys(input) = {}) =>
        /\ output[1].analysis = << >>
        /\ output[1].response.status = 400
        /\ DOMAIN input # {} =>
              output[1].response.error = "Unable to compute differences - insufficient data"

\* both ears hold thresholds, at different frequencies
C14_Witness ==
    /\ output # << >>
    /\ Has(input, "left") /\ Has(input, "right")
    /\ DOMAIN input["left"] # {} /\ DOMAIN input["right"] # {}
    /\ CommonKeys(input) = {}
    /\ output[1].analysis = << >>

\* C15: for exactly the frequencies present in both ears, with no default,
\* signed_difference = left - right and absolute_difference = |left - right|
\* (left 30, right 45 at 1000 Hz: 15 and -15); the summary statistics are the
\* max, min and mean of these values, so min_absolute_difference >= 0 and
\* max_absolute_difference >= |signed difference| at every frequency.
C15_Differences ==
    (output # << >> /\ CommonKeys(input) # {}) =>
        /\ output[1].analysis # << >>
        /\ LET a    == output[1].analysis[1]
               st   == a.summary_stats
               sd   == [k \in CommonKeys(input) |-> input["left"][k] - input["right"][k]]
               ad   == [k \in CommonKeys(input) |-> IF sd[k] < 0 THEN -sd[k] ELSE sd[k]]
               n    == Cardinality(CommonKeys(input))
           IN  /\ {KeyOf(f) : f \in DOMAIN a.per_frequency} = CommonKeys(input)
               /\ \A f \in DOMAIN a.per_frequency :
                     /\ a.per_frequency[f].signed_difference = sd[KeyOf(f)]
                     /\ a.per_frequency[f].absolute_difference = ad[KeyOf(f)]
                     /\ a.per_frequency[f].left_threshold = input["left"][KeyOf(f)]
                     /\ a.per_frequency[f].right_threshold = input["right"][KeyOf(f)]
               /\ \E k \in CommonKeys(input) : st.max_absolute_difference = ad[k]
               /\ \E k \in CommonKeys(input) : st.min_absolute_difference = ad[k]
               /\ \E k \in CommonKeys(input) : st.max_signed_difference = sd[k]
               /\ \E k \in CommonKeys(input) : st.min_signed_difference = sd[k]
               /\ \A k \in CommonKeys(input) :
                     /\ ad[k] <= st.max_absolute_difference
                     /\ ad[k] >= st.min_absolute_difference
                     /\ sd[k] <= st.max_signed_difference
                     /\ sd[k] >= st.min_signed_difference
                     /\ sd[k] <= st.max_absolute_difference
                     /\ -sd[k] <= st.max_absolute_difference
               /\ st.min_absolute_difference >= 0
               /\ st.mean_absolute_difference.num * n
                     = st.mean_absolute_difference.den * SumOver(ad, CommonKeys(input))
               /\ st.mean_signed_difference.num * n
                     = st.mean_signed_difference.den * SumOver(sd, CommonKeys(input))
               /\ st.frequencies_compared = n
        /\ (input = [left |-> [k \in {"1000"} |-> 30], right |-> [k \in {"1000"} |-> 45]]) =>
              /\ output[1].analysis[1].per_frequency[1000].absolute_difference = 15
              /\ output[1].analysis[1].per_frequency[1000].signed_difference = -15

\* left 30, right 45 at 1000 Hz has been analysed
C15_Witness ==
    /\ output # << >>
    /\ input = [left |-> [k \in {"1000"} |-> 30], right |-> [k \in {"1000"} |-> 45]]
    /\ output[1].analysis # << >>
    /\ output[1].response.status = 200

----------------------------------------------------------------------------
\* an analysis of stored rows has been made
Analysed == output # << >> /\ input = << >>

\* the fetched sessions with at least 3 threshold values for each ear
CompleteSessions(rows) ==
    {id \in {r.session_id : r \in rows} :
        /\ Cardinality({r \in rows : r.session_id = id /\ r.ear = "left"}) >= 3
        /\ Cardinality({r \in rows : r.session_id = id /\ r.ear = "right"}) >= 3}

\* C16: with limit >= 2, analyze_session_trends returns insufficient_data if
\* and only if fewer than 2 of the analysed sessions are complete (3 or more
\* threshold values for each ear); otherwise the classification is one of
\* stable, variable, changing.
C16_InsufficientData ==
    Analysed =>
        /\ output[1].result.classification = "insufficient_data"
              <=> Cardinality(CompleteSessions(output[1].sessions)) < 2
        /\ output[1].result.classification
              \in {"insufficient_data", "stable", "variable", "changing"}

\* two sessions were fetched and one of them is incomplete
C16_Witness ==
    /\ Analysed
    /\ Cardinality({r.session_id : r \in output[1].sessions}) >= 2
    /\ Cardinality(CompleteSessions(output[1].sessions)) = 1
    /\ output[1].result.classification = "insufficient_data"

\* a classification was made
Classified ==
    /\ output # << >>
    /\ output[1].result.classification \in {"stable", "variable", "changing"}

\* a / b <= c for a quotient a / b with b > 0 and an integer c
AtMost(q, c) == q.num <= c * q.den

\* |a / b| <= c
WithinAbs(q, c) == q.num <= c * q.den /\ -q.num <= c * q.den

RECURSIVE SumOfSquares(_)
SumOfSquares(values) ==
    IF Len(values) = 0 THEN FromInt(0)
    ELSE FAdd(FMul(values[1], values[1]), SumOfSquares(Tail(values)))

\* sum of (i - 1) * values[i]
RECURSIVE SumIndexed(_)
SumIndexed(values) ==
    IF Len(values) = 0 THEN FromInt(0)
    ELSE FAdd(FMul(FromInt(Len(values) - 1), values[Len(values)]),
              SumIndexed(SubSeq(values, 1, Len(values) - 1)))

\* population variance: (n * sum x^2 - (sum x)^2) / n^2
PopulationVariance(values) ==
    LET n == FromInt(Len(values))
    IN  FDiv(FSub(FMul(n, SumOfSquares(values)), FMul(FSum(values), FSum(values))),
             FMul(n, n))

\* least-squares slope against the index 0, 1, 2, ...:
\* (n * sum i x_i - sum i * sum x) / (n * sum i^2 - (sum i)^2)
LeastSquaresSlope(values) ==
    LET n  == Len(values)
        si == SumSeq([i \in 1..n |-> i - 1])
        sq == SumSeq([i \in 1..n |-> (i - 1) * (i - 1)])
    IN  FDiv(FSub(FMul(FromInt(n), SumIndexed(values)), FMul(FromInt(si), FSum(values))),
             FromInt(n * sq - si * si))

\* the lists the classifier works on are the averages of the complete
\* sessions analysed, oldest first
TimeOrdered ==
    LET sm == output[1].result.session_metrics
    IN  /\ \A i \in 1..(Len(sm) - 1) : sm[i].timestamp <= sm[i + 1].timestamp
        /\ Analysed =>
              /\ {sm[i].session_id : i \in 1..Len(sm)} = CompleteSessions(output[1].sessions)
              /\ Len(sm) = Cardinality(CompleteSessions(output[1].sessions))

OverallAvgs ==
    [i \in 1..Len(output[1].result.session_metrics) |->
        output[1].result.session_metrics[i].overall_avg]

LeftAvgs ==
    [i \in 1..Len(output[1].result.session_metrics) |->
        output[1].result.session_metrics[i].left_avg]

RightAvgs ==
    [i \in 1..Len(output[1].result.session_metrics) |->
        output[1].result.session_metrics[i].right_avg]

InterauralMaxes ==
    [i \in 1..Len(output[1].result.session_metrics) |->
        output[1].result.session_metrics[i].max_interaural_diff]

VariancesArePopulation ==
    LET m == output[1].result.metrics
    IN  /\ m.overall_variance = PopulationVariance(OverallAvgs)
        /\ m.left_ear_variance = PopulationVariance(LeftAvgs)
        /\ m.right_ear_variance = PopulationVariance(RightAvgs)
        /\ m.interaural_variance = PopulationVariance(InterauralMaxes)

\* C18 as stated: for every time-ordered list of 2 or more complete sessions
\* the variance is the population variance and the slope is the least-squares
\* slope against the session index, for exactly 2 sessions too, where it is
\* the difference of the two values.
C18_AsStated ==
    Classified =>
        /\ TimeOrdered
        /\ VariancesArePopulation
        /\ output[1].result.metrics.overall_trend_slope = LeastSquaresSlope(OverallAvgs)
        /\ output[1].result.metrics.interaural_trend_slope
              = LeastSquaresSlope(InterauralMaxes)
        /\ Len(OverallAvgs) = 2 =>
              output[1].result.metrics.overall_trend_slope
                  = FSub(OverallAvgs[2], OverallAvgs[1])

\* C18: for every time-ordered list of 2 or more complete sessions the
\* variance is the population variance; the slope is the least-squares slope
\* against the session index for 3 or more sessions, and 0 for exactly 2.
C18_VarianceAndSlope ==
    Classified =>
        /\ TimeOrdered
        /\ VariancesArePopulation
        /\ Len(OverallAvgs) >= 3 =>
              /\ output[1].result.metrics.overall_trend_slope
                    = LeastSquaresSlope(OverallAvgs)
              /\ output[1].result.metrics.interaural_trend_slope
                    = LeastSquaresSlope(InterauralMaxes)
        /\ Len(OverallAvgs) = 2 =>
              /\ output[1].result.metrics.overall_trend_slope = FromInt(0)
              /\ output[1].result.metrics.interaural_trend_slope = FromInt(0)

\* exactly two complete sessions with different overall averages were analysed
C18_Witness ==
    /\ Classified
    /\ Analysed
    /\ Len(OverallAvgs) = 2
    /\ OverallAvgs[1] # OverallAvgs[2]
    /\ output[1].result.metrics.overall_variance # FromInt(0)

DirectionReported ==
    output[1].result.description \in {"Notable variation with increasing trend",
                                      "Notable variation with decreasing trend"}

\* C19: a history classified as changing gets a direction (increasing for a
\* positive, decreasing for a negative overall slope) if and only if
\* |overall slope| > 2; every other changing history, one caused only by the
\* interaural slope or by variance included, is reported as high variation
\* without a direction.
C19_DirectionOnlyForOverallSlope ==
    (Classified /\ output[1].result.classification = "changing") =>
        LET slope == output[1].result.metrics.overall_trend_slope
        IN  IF ~WithinAbs(slope, 2)
            THEN output[1].result.description =
                    (IF slope.num > 0 THEN "Notable variation with increasing trend"
                                      ELSE "Notable variation with decreasing trend")
            ELSE output[1].result.description = "High variation in measurements"

----------------------------------------------------------------------------
\* worker w commits in this step
Commits(w) == inflight[w] # << >> /\ inflight'[w] = << >>

\* C20: concurrent submit_response calls of one user are mutually exclusive:
\* whatever the interleaving of their loads and stores, every commit leaves
\* the state that the call would have produced had it run alone on the state
\* stored just before, so the result is that of the calls run one after the
\* other, no trial is lost and no threshold is written twice.
C20_Serializable ==
    [][\A w \in Workers :
          (Commits(w) /\ Has(test_state, "current_test")) =>
              /\ test_state' = Persist(SubmitUpdate(test_state, inflight[w][1].heard))
              /\ test_state'.current_test_index = test_state.current_test_index
                    => test_state'.current_test.trial_count
                          = test_state.current_test.trial_count + 1]_vars

----------------------------------------------------------------------------
\* C21: no test result of a guest is ever stored: whatever start_test,
\* submit_response, next_test and save_results calls a guest makes, no
\* screening_sessions row references the user and the user's left_avg,
\* right_avg and dissimilarity stay unset.
C21_GuestNothingStored ==
    auth_type = "guest" =>
        /\ screening_sessions = {}
        /\ user_result = NoResult

----------------------------------------------------------------------------
\* the session ids of the pages fetched so far, in the order returned
RECURSIVE Listed(_)
Listed(pages) ==
    IF Len(pages) = 0 THEN << >>
    ELSE Listed(SubSeq(pages, 1, Len(pages) - 1))
             \o (IF pages[Len(pages)].status = 200
                 THEN [i \in 1..Len(pages[Len(pages)].history) |->
                          pages[Len(pages)].history[i]]
                 ELSE << >>)

\* the client has reached a page that announces no further one
PagingEnded ==
    /\ output # << >>
    /\ output[Len(output)].status = 200
    /\ output[Len(output)].statistics.pagination.next_offset = << >>

\* C22: paging through the history by following next_offset from offset 0,
\* for any limit the endpoint accepts, returns every session exactly once, in
\* latest-first order, and ends with has_more false and next_offset null:
\* no session is listed twice, timestamps never increase, every page that
\* announces another one lists at least one session, and the last page leaves
\* no session out.
C22_Paging ==
    (auth_type = "authenticated" /\ output # << >>) =>
        LET listed == Listed(output)
        IN  /\ \A i, j \in 1..Len(listed) :
                  i < j => /\ listed[i].session_id # listed[j].session_id
                           /\ listed[i].timestamp >= listed[j].timestamp
            /\ \A p \in 1..Len(output) :
                  output[p].statistics.has_more
                      => /\ Len(output[p].history) > 0
                         /\ output[p].statistics.pagination.next_offset # << >>
            /\ PagingEnded =>
                  /\ ~output[Len(output)].statistics.has_more
                  /\ {listed[i].session_id : i \in 1..Len(listed)}
                        = SessionIds(screening_sessions)

----------------------------------------------------------------------------
\* the level after an answer at level l
LevelAfter(l, heard) ==
    IF heard = "true"
    THEN (IF l - 10 < -10 THEN -10 ELSE l - 10)
    ELSE (IF l + 5 > 40 THEN 40 ELSE l + 5)

\* C23: each accepted submit_response on a running session appends exactly
\* one trial, recorded at the level that was current before the update,
\* increments trial_count by 1, and moves the level to max(-10, level - 10)
\* when heard and to min(40, level + 5) when not; the first trial of every
\* run is recorded at level 40.  When the answer ends a run that is replaced
\* by the next one, the appended trial shows in the threshold estimated from
\* the trial list.
C23_TrialRecorded ==
    /\ [](Active =>
            LET ct == test_state.current_test
            IN  /\ Len(ct.responses) = ct.trial_count
                /\ ct.responses # << >> => ct.responses[1].level = 40)
    /\ [][(AcceptedSubmit /\ Active) =>
            LET ct    == test_state.current_test
                trial == [level |-> ct.current_level, heard |-> request'.heard]
            IN  IF RunEnded /\ test_state'.current_test_index < 12
                THEN test_state'.thresholds[ct.ear][KeyOf(ct.frequency)]
                        = ExpectedThreshold(Append(ct.responses, trial))
                ELSE /\ test_state'.current_test.responses = Append(ct.responses, trial)
                     /\ test_state'.current_test.trial_count = ct.trial_count + 1
                     /\ test_state'.current_test.current_level
                           = LevelAfter(ct.current_level, request'.heard)]_vars

\* a not-heard answer at level 30 has been recorded and the level is 35
C23_Witness ==
    /\ Active
    /\ request.op = "submit_response"
    /\ Len(test_state.current_test.responses) >= 2
    /\ test_state.current_test.responses[Len(test_state.current_test.responses)]
          = [level |-> 30, heard |-> "false"]
    /\ test_state.current_test.current_level = 35

----------------------------------------------------------------------------
\* C24: a submit_response that does not end the active run leaves the cursor,
\* the active (frequency, ear) pair and the thresholds unchanged; one that
\* ends it adds exactly one threshold entry, for the active pair, leaves every
\* other entry unchanged, advances the cursor by exactly 1 and, when the new
\* cursor is below 12, replaces the run by a fresh one (level 40, no trials,
\* trial_count 0) for the next pair.
C24_Frame ==
    [][(AcceptedSubmit /\ Active) =>
        LET ct == test_state.current_test
            p  == [ear |-> ct.ear, key |-> KeyOf(ct.frequency)]
        IN  /\ test_state'.test_sequence = test_state.test_sequence
            /\ test_state'.total_tests = test_state.total_tests
            /\ test_state'.current_test_index
                  \in {test_state.current_test_index, test_state.current_test_index + 1}
            /\ IF ~RunEnded
               THEN /\ test_state'.current_test.frequency = ct.frequency
                    /\ test_state'.current_test.ear = ct.ear
                    /\ test_state'.thresholds = test_state.thresholds
               ELSE /\ p \notin Recorded(test_state)
                    /\ Recorded(test_state') = Recorded(test_state) \cup {p}
                    /\ \A q \in Recorded(test_state) :
                          test_state'.thresholds[q.ear][q.key]
                              = test_state.thresholds[q.ear][q.key]
                    /\ test_state'.current_test_index < 12 =>
                          test_state'.current_test =
                              [frequency     |-> ExpectedOrder[test_state'.current_test_index + 1].freq,
                               ear           |-> ExpectedOrder[test_state'.current_test_index + 1].ear,
                               current_level |-> 40,
                               responses     |-> << >>,
                               trial_count   |-> 0,
                               max_trials    |-> 12]]_vars

\* the second run has just ended and the run for (4000 Hz, right) is fresh
C24_Witness ==
    /\ Started
    /\ request.op = "submit_response"
    /\ test_state.current_test_index = 2
    /\ Cardinality(Recorded(test_state)) = 2
    /\ test_state.current_test.frequency = 4000
    /\ test_state.current_test.ear = "right"
    /\ test_state.current_test.trial_count = 0

----------------------------------------------------------------------------
\* C25: every staircase run lasts at least 6 and at most 12 trials, whatever
\* the answers, so a session that keeps receiving answers and is not
\* restarted always reaches Completed, after no fewer than 72 and no more
\* than 144 submits: while the session is running every answer is accepted
\* and counted, the count stays within 6 and 12 per ended run plus the trials
\* of the active run, which are at most 11, and the count at the step that
\* completes the session is within 72 and 144.
C25_RunAndSessionLength ==
    /\ [](Active =>
            /\ test_state.current_test.trial_count <= 11
            /\ output[1] >= 6 * test_state.current_test_index
                               + test_state.current_test.trial_count
            /\ output[1] <= 12 * test_state.current_test_index
                               + test_state.current_test.trial_count)
    /\ [][(Active /\ request'.op = "submit_response" /\ request'.heard # "null") =>
            /\ response'.status = 200
            /\ output'[1] = output[1] + 1]_vars
    /\ [][(AcceptedSubmit /\ Active /\ RunEnded) =>
            /\ test_state.current_test.trial_count + 1 >= 6
            /\ test_state.current_test.trial_count + 1 <= 12
            /\ test_state'.current_test_index = 12 =>
                  (output'[1] >= 72 /\ output'[1] <= 144)]_vars

\* a session has just been completed by 138 answers: a first run of six
\* heard answers and eleven runs of twelve answers not heard
C25_Witness ==
    /\ Started
    /\ test_state.current_test_index = 12
    /\ test_state.current_test.trial_count = 12
    /\ habit = FALSE
    /\ output[1] = 138

----------------------------------------------------------------------------
\* the step served a next_test that reported completion
ReportsCompletion ==
    /\ request'.op = "next_test"
    /\ response'.status = 200
    /\ response'.completed

\* C26: next_test reports completed = true and writes the user's left_avg,
\* right_avg and dissimilarity only when all 12 (ear, frequency) pairs have a
\* threshold recorded by a run that ended; for a user who never started a
\* test (empty test_state) or whose session is still running it neither
\* reports completion nor writes any result.
C26_CompletionOnlyWhenMeasured ==
    [][request'.op = "next_test" =>
        /\ (ReportsCompletion \/ user_result' # user_result
                \/ screening_sessions' # screening_sessions) =>
              /\ Started
              /\ test_state.current_test_index >= 12
              /\ Recorded(test_state) = {ExpectedEntry(i) : i \in 1..12}
        /\ (~Started \/ Active) =>
              /\ ~ReportsCompletion
              /\ user_result' = user_result
              /\ screening_sessions' = screening_sessions
        /\ (Started /\ ~Active) =>
              /\ ReportsCompletion
              /\ user_result' # NoResult]_vars

\* next_test has been served to a user who never started a test
C26_Witness ==
    /\ request.op = "next_test"
    /\ ~Started
    /\ response.status = 500
    /\ user_result = NoResult

----------------------------------------------------------------------------
\* the step ended the active run through the floor rule: a heard answer at
\* level -10
FloorEnded ==
    /\ AcceptedSubmit
    /\ Active
    /\ request'.heard = "true"
    /\ test_state.current_test.current_level = -10

\* the threshold the step recorded for the pair of the run it ended
RecordedNow ==
    test_state'.thresholds[test_state.current_test.ear][KeyOf(test_state.current_test.frequency)]

\* C27 as stated: whenever a run ends through the floor rule, the threshold
\* recorded for that pair is -10.0, for every response sequence that leads to
\* that end.
C27_AsStated ==
    [][FloorEnded => RecordedNow = -10]_vars

\* C27: whenever a run ends through the floor rule, the threshold recorded
\* is -10.0 if at least half of the trials presented at -10 were heard, and
\* otherwise the lowest level above -10 at which at least half of the trials
\* were heard, which is -5 or 0.
C27_FloorThreshold ==
    [][FloorEnded =>
        LET t == Append(test_state.current_test.responses, [level |-> -10, heard |-> "true"])
        IN  /\ RunEnded
            /\ IF 2 * HeardAt(t, -10) >= CountAt(t, -10)
               THEN RecordedNow = -10
               ELSE /\ RecordedNow \in {-5, 0}
                    /\ 2 * HeardAt(t, RecordedNow) >= CountAt(t, RecordedNow)
                    /\ \A l \in LevelsOf(t) :
                          l < RecordedNow => 2 * HeardAt(t, l) < CountAt(t, l)]_vars

\* the first run has ended at the floor on its tenth answer, after two of the
\* three trials at -10 were missed, and -5.0 is recorded
C27_Witness ==
    /\ Started
    /\ request.op = "submit_response"
    /\ request.heard = "true"
    /\ test_state.current_test_index = 1
    /\ output[1] = 10
    /\ test_state.thresholds.right["5000"] = -5

----------------------------------------------------------------------------
\* some answer of the session was heard = true: the listener hears by habit,
\* or has answered against the habit of not hearing
HeardAny == habit \/ lapses > 0

\* C28: for a session completed through the staircase, is_valid is false
\* exactly when no stimulus was heard in any of the 12 runs; a session with
\* at least one heard answer is always reported with is_valid = true.
C28_ValidIffHeard ==
    [][ReportsCompletion => (response'.is_valid <=> HeardAny)]_vars

----------------------------------------------------------------------------
\* C29: for every completed session with all 12 thresholds persisted, the
\* three aggregations agree: left_avg, right_avg and max_diff returned by
\* next_test equal left_avg, right_avg and dissimilarity of
\* get_session_summary on the persisted rows, and that dissimilarity equals
\* max_absolute_difference of compute_interaural_differences on the same
\* thresholds.
C29_PathsAgree ==
    output # << >> =>
        /\ Cardinality(output[1].rows) = 12
        /\ output[1].stored # << >>
        /\ output[1].interaural # << >>
        /\ output[1].stored[1].left_avg = <<output[1].completion.left_avg>>
        /\ output[1].stored[1].right_avg = <<output[1].completion.right_avg>>
        /\ output[1].stored[1].dissimilarity = <<output[1].completion.max_diff>>
        /\ output[1].interaural[1].summary_stats.max_absolute_difference
              = output[1].stored[1].dissimilarity[1]

\* a session whose left ear is better than its right at some frequency and
\* worse at none has been aggregated
C29_Witness ==
    /\ output # << >>
    /\ output[1].completion.max_diff > 0
    /\ \A k \in ThresholdKeys :
          output[1].completion.thresholds.left[k] <= output[1].completion.thresholds.right[k]
    /\ output[1].stored[1].dissimilarity = <<output[1].completion.max_diff>>

----------------------------------------------------------------------------
\* C30: next_test never changes the persisted session state (cursor, active
\* run, trial list, thresholds) in any state; on a running session it reports
\* the frequency, ear and level of the persisted run, and the submit_response
\* that follows has the effect it would have had without the call.
C30_NextTestReadsOnly ==
    [][request'.op = "next_test" =>
        /\ test_state' = test_state
        /\ Active =>
              /\ response'.status = 200
              /\ ~response'.completed
              /\ response'.freq = test_state.current_test.frequency
              /\ response'.ear = test_state.current_test.ear
              /\ response'.level = test_state.current_test.current_level
              /\ response'.test_number = test_state.current_test_index + 1
              /\ \A heard \in {"true", "false"} :
                    Persist(SubmitUpdate(test_state', heard))
                        = Persist(SubmitUpdate(test_state, heard))]_vars

\* next_test has been served in the middle of a run, below level 40
C30_Witness ==
    /\ request.op = "next_test"
    /\ Active
    /\ test_state.current_test.trial_count >= 2
    /\ test_state.current_test.current_level < 40
    /\ response.status = 200
    /\ response.level = test_state.current_test.current_level

====
